---- MODULE Spec2Model ----
(***************************************************************************)
(* NinyMark client-side session controller.                                *)
(*                                                                         *)
(* Part 1: ConfigHistory (frontend/js/settings.js), the debounced,         *)
(* bounded undo/redo history persisted in sessionStorage.                  *)
(* Part 2: BatchPipeline (processAll in the frontend application script),  *)
(* the chunked processing of the loaded images.                            *)
(*                                                                         *)
(* JavaScript runs one handler at a time, so every handler (and every      *)
(* timer callback) is one atomic action.  Suspension points are the        *)
(* awaited network calls only.                                             *)
(***************************************************************************)
EXTENDS Integers, Sequences, FiniteSets, TLC

(***************************************************************************)
(* Bounds of the model.                                                    *)
(***************************************************************************)
\* settings.js:12 has MAX_STACK_SIZE = 50; the model scales the capacity
\* down so that the overflow branch is reached by short runs.
MAX_STACK_SIZE == 2
\* How many sessionStorage.setItem calls may throw in one behaviour.
MaxWriteFailures == 1

(***************************************************************************)
(* JavaScript values held by the fields of a configuration object.         *)
(* Numbers are scaled to integers: opacity and the normalized coordinates  *)
(* are in hundredths (0.75 is Num(75)).                                    *)
(***************************************************************************)
Num(n) == [t |-> "number", n |-> n, s |-> ""]
Str(s) == [t |-> "string", n |-> 0, s |-> s]
Null == [t |-> "null", n |-> 0, s |-> ""]
NaN == [t |-> "NaN", n |-> 0, s |-> ""]
Undefined == [t |-> "undefined", n |-> 0, s |-> ""]

DEFAULT_SETTINGS ==
  [style |-> Str("branded_block"),
   opacity |-> Num(75),
   size |-> Str("M"),
   padding |-> Num(20),
   color |-> Str("light"),
   custom_text |-> Str("patreon.com/Ninyra"),
   custom_size_pct |-> Null,
   manual_x |-> Null,
   manual_y |-> Null,
   font_path |-> Null]

\* Object.assign(target, partial): the keys of partial overwrite the target's.
ObjectAssign(target, partial) ==
  [k \in (DOMAIN target) \cup (DOMAIN partial) |->
     IF k \in DOMAIN partial THEN partial[k] ELSE target[k]]

(***************************************************************************)
(* The partial objects the UI handlers pass to update().                   *)
(***************************************************************************)
\* The opacity slider's input handler: update({ opacity: value / 100 }).
OpacityPartial(pct) == [opacity |-> Num(pct)]
SliderValues == {50}

(***************************************************************************)
(* JSON.stringify / JSON.parse of a history stack.                         *)
(* A stored item is absent (getItem returns null), the empty string, a     *)
(* text that is not JSON ("invalid"), the JSON text null, or the JSON text *)
(* of an array of objects.                                                 *)
(***************************************************************************)
\* JSON has no NaN: JSON.stringify writes null for it.
JsonValue(v) == IF v.t = "NaN" THEN Null ELSE v
\* Keys whose value is undefined are left out of the text.
JsonObject(o) ==
  [k \in {f \in DOMAIN o : o[f].t # "undefined"} |-> JsonValue(o[k])]
JsonStringify(isNull, stack) ==
  IF isNull
  THEN [kind |-> "null", items |-> <<>>]
  ELSE [kind |-> "array", items |-> [i \in 1..Len(stack) |-> JsonObject(stack[i])]]
AbsentItem == [kind |-> "absent", items |-> <<>>]
EmptyItem == [kind |-> "empty", items |-> <<>>]
InvalidItem == [kind |-> "invalid", items |-> <<>>]
NullItem == [kind |-> "null", items |-> <<>>]
\* `if (saved)`: null and "" are falsy.
Truthy(item) == item.kind \notin {"absent", "empty"}
\* JSON.parse throws a SyntaxError on a text that is not JSON.
ParseThrows(item) == item.kind = "invalid"
JsonParse(item) == item.items

VARIABLES
  current,        \* settings.js:30
  undoStack,      \* settings.js:31 (the elements, oldest first)
  redoStack,      \* settings.js:32
  nullStacks,     \* which of the two stack variables hold null, not an array
  isRestoring,    \* settings.js:33
  debounceTimer,  \* settings.js:34: the pending timeout and its captured prevState
  timers,         \* how many timeouts of the module are pending in the browser
  storage,        \* sessionStorage items under the two keys
  initialized,    \* "no" before init(), then "ok" or "threw"
  writeFailures,  \* setItem calls that threw so far
  lastCall,       \* what the last handler did (observation)
  burstBase,      \* history: current before the first update of the pending burst
  undoTrack,      \* history: current before the last undo(), while nothing else happened
  resetTrack      \* history: current before the last resetDefaults(), likewise

VARIABLES
  images,          \* upload module: the loaded images, in insertion order (their ids)
  backendOnline,   \* application script: result of the last health poll
  isProcessing,    \* application script: a processAll run is active
  run,             \* the local state of the last processAll activation
  processedImages, \* preview module: the result list set by setResults
  progressLog,     \* the percentages passed to showProgress during the run
  toast,           \* the error toast shown by processAll's catch clause
  abandoned,       \* requests of an aborted run that are still in flight
  runsStarted      \* how many runs processAll has started

VARIABLES
  dragEnabled,    \* preview.js:22
  snapToGrid,     \* preview.js:23
  isDragging,     \* preview.js:24
  handle,         \* style.left / style.top of the drag handle, in px
  dragStart,      \* preview.js:283-286: startX, startY, handleStartLeft, handleStartTop
  listeners,      \* onMouseMove/onMouseUp pairs registered on document
  pointer,        \* where the pointer is while a button is held (client px)
  buttons,        \* mouse buttons held down since a press on the handle
  upQueue,        \* onMouseUp listeners still to run in the current mouseup dispatch
  clickDue,       \* the browser owes the click event that follows the release
  lastEvent,      \* what the last DOM event handler did (observation)
  gesture         \* history: the drag in progress and the events it emitted

VARIABLES
  previewRequests \* the preview requests of _triggerPreview that are in flight

VARIABLES
  lastIssued      \* history: the api.preview request(s) issued most recently

placementVars == <<dragEnabled, snapToGrid, isDragging, handle, dragStart, listeners,
                   pointer, buttons, upQueue, clickDue, lastEvent, gesture,
                   previewRequests>>
dragVars == <<placementVars, lastIssued>>

VARIABLES
  faceCache,         \* part_000:18: the image ids that have an entry
  previewURLs,       \* object URLs made by URL.createObjectURL: id -> times revoked
  calls,             \* the activations of addFiles (addImages), finished ones included
  nextId,            \* how many ids _generateId has handed out
  faceDetectEnabled, \* preview.js:535
  detections,        \* the face-detection requests in flight (image ids)
  detectLog          \* history: requests issued per image id (0, 1, or 2 for more)

VARIABLES
  isManualMode,      \* App.tsx:42: the next click on the preview places the watermark
  placeTimers,       \* App.tsx:48: timeouts of handleManualPlace that have not fired
  activeRuns         \* activations of useWatermark.processAll that await a response

hookVars == <<isManualMode, placeTimers, activeRuns>>

VARIABLES
  attempts,          \* main.js:173: probes started by waitForBackend
  probes,            \* http.get requests of check that have not ended
  retryTimers,       \* main.js:201: timeouts of retry that have not fired
  settled            \* the promise returned by waitForBackend

waitVars == <<attempts, probes, retryTimers, settled>>

storeVars == <<faceCache, previewURLs, calls, nextId, faceDetectEnabled,
               detections, detectLog, hookVars, waitVars>>

batchVars == <<images, backendOnline, isProcessing, run, processedImages,
               progressLog, toast, abandoned, runsStarted>>

histVars == <<current, undoStack, redoStack, nullStacks, isRestoring,
              debounceTimer, timers, storage, initialized, writeFailures, lastCall,
              burstBase, undoTrack, resetTrack>>

vars == <<histVars, batchVars, dragVars, storeVars>>

NoTimer == [armed |-> FALSE, prevState |-> DEFAULT_SETTINGS]
NoTrack == [stage |-> "none", snapshot |-> DEFAULT_SETTINGS]
\* The observation of one handler call: did it throw, call onChange, call
\* setTimeout, write the stacks (and did the write succeed), run shift().
Call(op, threw, notified, armed, write, evicted) ==
  [op |-> op, threw |-> threw, notified |-> notified, armed |-> armed,
   write |-> write, evicted |-> evicted]
NoCall == Call("none", FALSE, FALSE, FALSE, "none", FALSE)

\* `if (stack.length > MAX_STACK_SIZE) stack.shift()` after a push.
Overflows(stack) == Len(stack) + 1 > MAX_STACK_SIZE
\* Mutant: the push without the overflow check.
PushUnbounded(stack, entry) == Append(stack, entry)
PushBounded(stack, entry) ==
  LET pushed == Append(stack, entry)
  IN IF Len(pushed) > MAX_STACK_SIZE THEN Tail(pushed) ELSE pushed
\* Array.pop: the last element (undefined on an empty array, written here as
\* an object whose fields are all undefined) and the array that remains.
UndefinedSettings == [k \in DOMAIN DEFAULT_SETTINGS |-> Undefined]
\* Mutant: the value of shift() (the oldest element) taken for the popped one.
Oldest(stack) == IF Len(stack) = 0 THEN UndefinedSettings ELSE stack[1]
Top(stack) == IF Len(stack) = 0 THEN UndefinedSettings ELSE stack[Len(stack)]
\* Mutant: the stack emptied instead of popped.
PoppedAll(stack) == <<>>
Popped(stack) == SubSeq(stack, 1, Len(stack) - 1)
\* Mutant: the early return of undo()/redo() is missing.
NeverEmpty(stack) == FALSE
\* `if (stack.length === 0) return;`
IsEmpty(stack) == Len(stack) = 0

\* _saveStacks: two setItem calls inside one try; w tells which one throws.
WriteOutcomes ==
  IF writeFailures < MaxWriteFailures THEN {"ok", "fail_undo", "fail_redo"} ELSE {"ok"}
\* Mutant: the undo stack is written under both keys.
SaveStacksOneStack(us, rs, w) ==
  CASE w = "ok" -> [undo |-> JsonStringify(FALSE, us), redo |-> JsonStringify(FALSE, us)]
    [] w = "fail_undo" -> storage
    [] OTHER -> [storage EXCEPT !.undo = JsonStringify(FALSE, us)]
SaveStacks(us, rs, w) ==
  CASE w = "ok" -> [undo |-> JsonStringify(FALSE, us), redo |-> JsonStringify(FALSE, rs)]
    [] w = "fail_undo" -> storage
    [] OTHER -> [storage EXCEPT !.undo = JsonStringify(FALSE, us)]
WriteStatus(w) == IF w = "ok" THEN "ok" ELSE "failed"
CountFailure(w) == IF w = "ok" THEN writeFailures ELSE writeFailures + 1

(***************************************************************************)
(* Module construction and page load.                                      *)
(***************************************************************************)
FreshStorage == [undo |-> AbsentItem, redo |-> AbsentItem]
\* What a tab may find under a key when the script starts.
StoredItems ==
  {AbsentItem, EmptyItem, InvalidItem, NullItem,
   JsonStringify(FALSE, <<DEFAULT_SETTINGS>>)}

\* The module-level `let` declarations, evaluated when the script is loaded.
Constructed ==
  /\ current = DEFAULT_SETTINGS
  /\ undoStack = <<>>
  /\ redoStack = <<>>
  /\ nullStacks = {}
  /\ isRestoring = FALSE
  /\ debounceTimer = NoTimer
  /\ timers = 0
  /\ initialized = "no"
  /\ lastCall = NoCall
  /\ burstBase = DEFAULT_SETTINGS
  /\ undoTrack = NoTrack
  /\ resetTrack = NoTrack

\* A tab that opens the page for the first time: sessionStorage is empty.
HistInit ==
  /\ Constructed
  /\ storage = FreshStorage
  /\ writeFailures = 0

\* A tab whose sessionStorage already holds items under the two keys.
LoadInit ==
  /\ Constructed
  /\ storage \in [undo : StoredItems, redo : StoredItems]
  /\ writeFailures = 0

\* Reloading the page in the same tab: the script state is rebuilt, pending
\* timers die with the old page, sessionStorage survives.
pageLoad ==
  /\ initialized # "no"
  /\ current' = DEFAULT_SETTINGS
  /\ undoStack' = <<>>
  /\ redoStack' = <<>>
  /\ nullStacks' = {}
  /\ isRestoring' = FALSE
  /\ debounceTimer' = NoTimer
  /\ timers' = 0
  /\ initialized' = "no"
  /\ lastCall' = NoCall
  /\ burstBase' = DEFAULT_SETTINGS
  /\ undoTrack' = NoTrack
  /\ resetTrack' = NoTrack
  /\ UNCHANGED <<storage, writeFailures>>
  /\ UNCHANGED <<batchVars, dragVars, storeVars>>

\* A handler that returns (or throws) having changed nothing.  The public
\* functions stay callable (window-level `settings`) even after init() threw.
Returns(call) ==
  /\ lastCall' = call
  /\ UNCHANGED <<current, undoStack, redoStack, nullStacks, isRestoring,
                 debounceTimer, timers, storage, initialized, writeFailures,
                 burstBase, undoTrack, resetTrack>>
\* undo()/redo() throwing a TypeError on `stack.push` after `isRestoring = true`.
ThrowsRestoring(call) ==
  /\ lastCall' = call
  /\ isRestoring' = TRUE
  /\ undoTrack' = NoTrack
  /\ resetTrack' = NoTrack
  /\ UNCHANGED <<current, undoStack, redoStack, nullStacks, debounceTimer, timers,
                 storage, initialized, writeFailures, burstBase>>

(***************************************************************************)
(* init(): _loadStacks, _bindUI, _syncUIToSettings, _updateUndoRedoButtons *)
(***************************************************************************)
\* getItem may throw (storage access denied); r tells which call does.
ReadOutcomes == {"ok", "fail_undo", "fail_redo"}
\* The try block of _loadStacks ends in the catch clause.
LoadThrows(r) ==
  \/ r = "fail_undo"
  \/ (Truthy(storage.undo) /\ ParseThrows(storage.undo))
  \/ r = "fail_redo"
  \/ (Truthy(storage.redo) /\ ParseThrows(storage.redo))
\* `if (saved) stack = JSON.parse(saved)`
LoadedStack(item, before) ==
  IF Truthy(item) /\ item.kind = "array" THEN JsonParse(item) ELSE before
LoadedNulls(r) ==
  IF LoadThrows(r) THEN {}
  ELSE {k \in {"undo", "redo"} : Truthy(storage[k]) /\ storage[k].kind = "null"}
initWith(r) ==
  /\ initialized = "no"
  /\ undoStack' = IF LoadThrows(r) THEN <<>> ELSE LoadedStack(storage.undo, undoStack)
  /\ redoStack' = IF LoadThrows(r) THEN <<>> ELSE LoadedStack(storage.redo, redoStack)
  /\ nullStacks' = LoadedNulls(r)
  \* _updateUndoRedoButtons reads .length of both stacks: a TypeError on null.
  /\ initialized' = IF LoadedNulls(r) = {} THEN "ok" ELSE "threw"
  /\ lastCall' = Call("init", LoadedNulls(r) # {}, FALSE, FALSE, "none", FALSE)
  /\ UNCHANGED <<current, isRestoring, debounceTimer, timers, storage, writeFailures,
                 burstBase, undoTrack, resetTrack>>
  /\ UNCHANGED <<batchVars, dragVars, storeVars>>
init == \E r \in ReadOutcomes : initWith(r)

(***************************************************************************)
(* update(partial), resetDefaults()                                        *)
(***************************************************************************)
\* Mutant: prev aliases current (`const prev = current`), so the timeout
\* captures the object as it is after Object.assign.
debouncedPushAlias(prevState) == [armed |-> TRUE, prevState |-> current']
\* _debouncedPush(prevState): clearTimeout, then a new timeout capturing prevState.
debouncedPush(prevState) == [armed |-> TRUE, prevState |-> prevState]
\* Mutant: the previous timeout is left pending.
clearTimeoutNot(n) == n
\* `if (debounceTimer) clearTimeout(debounceTimer)`: a pending timeout is
\* cancelled; clearing one that has fired does nothing.
clearTimeout(n) == IF debounceTimer.armed THEN n - 1 ELSE n
\* `debounceTimer = setTimeout(...)`
setTimeout(n) == n + 1

\* What update(partial) does to the settings module.
updateCore(op, partial) ==
  /\ initialized # "no"
  /\ LET prev == current
     IN /\ current' = ObjectAssign(current, partial)
        /\ debounceTimer' = IF ~isRestoring THEN debouncedPush(prev) ELSE debounceTimer
        /\ timers' = IF ~isRestoring THEN setTimeout(clearTimeout(timers)) ELSE timers
        /\ burstBase' = IF ~isRestoring /\ ~debounceTimer.armed THEN prev ELSE burstBase
        /\ resetTrack' = IF op = "resetDefaults" /\ ~isRestoring /\ prev # DEFAULT_SETTINGS
                         THEN [stage |-> "reset", snapshot |-> prev]
                         ELSE NoTrack
        /\ lastCall' = Call(op, FALSE, TRUE, ~isRestoring, "none", FALSE)
  /\ undoTrack' = NoTrack
  /\ UNCHANGED <<undoStack, redoStack, nullStacks, isRestoring, storage,
                 initialized, writeFailures>>

\* update(partial) called from a settings control.
updateAs(op, partial) ==
  /\ updateCore(op, partial)
  /\ UNCHANGED <<batchVars, dragVars, storeVars>>

update(partial) == updateAs("update", partial)
resetDefaults == updateAs("resetDefaults", DEFAULT_SETTINGS)

(***************************************************************************)
(* The timeout callback armed by _debouncedPush (the commit).              *)
(***************************************************************************)
\* Mutant: the callback without `redoStack = []`.
commitKeepingRedo(w) ==
  /\ debounceTimer.armed
  /\ debounceTimer' = NoTimer
  /\ timers' = timers - 1
  /\ UNCHANGED <<batchVars, dragVars, storeVars>>
  /\ undoStack' = PushBounded(undoStack, debounceTimer.prevState)
  /\ redoStack' = redoStack
  /\ storage' = SaveStacks(undoStack', redoStack', w)
  /\ writeFailures' = CountFailure(w)
  /\ lastCall' = Call("commit", FALSE, FALSE, FALSE, WriteStatus(w),
                      Overflows(undoStack))
  /\ undoTrack' = NoTrack
  /\ resetTrack' = NoTrack
  /\ UNCHANGED <<current, nullStacks, isRestoring, initialized, burstBase>>
commitWith(w) ==
  /\ debounceTimer.armed
  /\ debounceTimer' = NoTimer
  /\ timers' = timers - 1
  /\ UNCHANGED <<batchVars, dragVars, storeVars>>
  /\ IF "undo" \in nullStacks
     THEN \* undoStack.push on null: TypeError inside the callback
          /\ lastCall' = Call("commit", TRUE, FALSE, FALSE, "none", FALSE)
          /\ undoTrack' = NoTrack
          /\ resetTrack' = NoTrack
          /\ UNCHANGED <<current, undoStack, redoStack, nullStacks, isRestoring,
                         storage, initialized, writeFailures, burstBase>>
     ELSE /\ undoStack' = PushBounded(undoStack, debounceTimer.prevState)
          /\ redoStack' = <<>>
          /\ nullStacks' = nullStacks \ {"redo"}
          /\ storage' = SaveStacks(undoStack', redoStack', w)
          /\ writeFailures' = CountFailure(w)
          /\ lastCall' = Call("commit", FALSE, FALSE, FALSE, WriteStatus(w),
                              Overflows(undoStack))
          /\ undoTrack' = NoTrack
          /\ resetTrack' = IF resetTrack.stage = "reset"
                           THEN [resetTrack EXCEPT !.stage = "committed"]
                           ELSE NoTrack
          /\ UNCHANGED <<current, isRestoring, initialized, burstBase>>
commit == \E w \in WriteOutcomes : commitWith(w)

(***************************************************************************)
(* undo(), redo()                                                          *)
(***************************************************************************)
\* Mutant: undo() restores through update(), with no restoring flag, so the
\* restore arms the commit timer.
undoViaUpdate(w) ==
  /\ initialized # "no"
  /\ UNCHANGED <<batchVars, dragVars, storeVars>>
  /\ IF IsEmpty(undoStack)
     THEN Returns(Call("undo", FALSE, FALSE, FALSE, "none", FALSE))
     ELSE /\ redoStack' = PushBounded(redoStack, current)
          /\ current' = Top(undoStack)
          /\ undoStack' = Popped(undoStack)
          /\ storage' = SaveStacks(undoStack', redoStack', w)
          /\ writeFailures' = CountFailure(w)
          /\ debounceTimer' = debouncedPush(current)
          /\ timers' = setTimeout(clearTimeout(timers))
          /\ lastCall' = Call("undo", FALSE, TRUE, TRUE, WriteStatus(w),
                              Overflows(redoStack))
          /\ undoTrack' = [stage |-> "undone", snapshot |-> current]
          /\ resetTrack' = NoTrack
          /\ UNCHANGED <<nullStacks, isRestoring, initialized, burstBase>>
undoWith(w) ==
  /\ initialized # "no"
  /\ UNCHANGED <<batchVars, dragVars, storeVars>>
  /\ CASE "undo" \in nullStacks ->
          \* undoStack.length on null: TypeError before anything is changed
          Returns(Call("undo", TRUE, FALSE, FALSE, "none", FALSE))
       [] "undo" \notin nullStacks /\ IsEmpty(undoStack) ->
          Returns(Call("undo", FALSE, FALSE, FALSE, "none", FALSE))
       [] "undo" \notin nullStacks /\ ~IsEmpty(undoStack) /\ "redo" \in nullStacks ->
          ThrowsRestoring(Call("undo", TRUE, FALSE, FALSE, "none", FALSE))
       [] OTHER ->
          /\ redoStack' = PushBounded(redoStack, current)
          /\ current' = Top(undoStack)
          /\ undoStack' = Popped(undoStack)
          /\ storage' = SaveStacks(undoStack', redoStack', w)
          /\ writeFailures' = CountFailure(w)
          /\ isRestoring' = FALSE
          /\ lastCall' = Call("undo", FALSE, TRUE, FALSE, WriteStatus(w),
                              Overflows(redoStack))
          /\ undoTrack' = [stage |-> "undone", snapshot |-> current]
          /\ resetTrack' = IF resetTrack.stage = "committed"
                           THEN [resetTrack EXCEPT !.stage = "undone"]
                           ELSE NoTrack
          /\ UNCHANGED <<nullStacks, debounceTimer, timers, initialized, burstBase>>
undo == \E w \in WriteOutcomes : undoWith(w)

redoWith(w) ==
  /\ initialized # "no"
  /\ UNCHANGED <<batchVars, dragVars, storeVars>>
  /\ CASE "redo" \in nullStacks ->
          Returns(Call("redo", TRUE, FALSE, FALSE, "none", FALSE))
       [] "redo" \notin nullStacks /\ IsEmpty(redoStack) ->
          Returns(Call("redo", FALSE, FALSE, FALSE, "none", FALSE))
       [] "redo" \notin nullStacks /\ ~IsEmpty(redoStack) /\ "undo" \in nullStacks ->
          ThrowsRestoring(Call("redo", TRUE, FALSE, FALSE, "none", FALSE))
       [] OTHER ->
          /\ undoStack' = PushBounded(undoStack, current)
          /\ current' = Top(redoStack)
          /\ redoStack' = Popped(redoStack)
          /\ storage' = SaveStacks(undoStack', redoStack', w)
          /\ writeFailures' = CountFailure(w)
          /\ isRestoring' = FALSE
          /\ lastCall' = Call("redo", FALSE, TRUE, FALSE, WriteStatus(w),
                              Overflows(undoStack))
          /\ undoTrack' = IF undoTrack.stage = "undone"
                          THEN [undoTrack EXCEPT !.stage = "redone"]
                          ELSE NoTrack
          /\ resetTrack' = NoTrack
          /\ UNCHANGED <<nullStacks, debounceTimer, timers, initialized, burstBase>>
redo == \E w \in WriteOutcomes : redoWith(w)

HistNext ==
  \/ init
  \/ pageLoad
  \/ \E pct \in SliderValues : update(OpacityPartial(pct))
  \/ resetDefaults
  \/ commit
  \/ undo
  \/ redo

\* One page's session: the operations of the module without a reload.
SessionNext ==
  \/ init
  \/ \E pct \in SliderValues : update(OpacityPartial(pct))
  \/ resetDefaults
  \/ commit
  \/ undo
  \/ redo

(***************************************************************************)
(* BatchPipeline: processAll() of the application script.                  *)
(***************************************************************************)
\* `const BATCH_SIZE = 4` inside processAll.
BATCH_SIZE == 4
\* The largest number of loaded images the model explores.
MaxImages == 7
\* How many batch runs one behaviour may start.
MaxRuns == 1

Min(a, b) == IF a < b THEN a ELSE b
\* Mutant: the ratio taken against the chunk size, with no cap.
PercentOfChunk(completed, total) == (200 * completed + BATCH_SIZE) \div (2 * BATCH_SIZE)
\* Math.min(100, Math.round((completed / total) * 100))
Percent(completed, total) == Min(100, (200 * completed + total) \div (2 * total))

\* The locals of one processAll activation.  Two fields are observations:
\* chunks lists the sizes of the chunks issued so far, outOfOrder tells that
\* some response arrived before the response of an earlier image.
NoRun ==
  [state |-> "idle", images |-> <<>>, batchStart |-> 0, requests |-> <<>>,
   results |-> <<>>, completed |-> 0, chunks |-> <<>>, outOfOrder |-> FALSE,
   currentSettings |-> DEFAULT_SETTINGS, sent |-> <<>>]

\* The module-level state of the application script and of the preview module.
BatchConstructed ==
  /\ images = <<>>
  /\ backendOnline = FALSE
  /\ isProcessing = FALSE
  /\ run = NoRun
  /\ processedImages = <<>>
  /\ progressLog = <<>>
  /\ toast = "none"
  /\ abandoned = 0
  /\ runsStarted = 0

\* The session after the user has loaded n images.
BatchInit ==
  /\ \E n \in 0..MaxImages : images = [i \in 1..n |-> i]
  /\ backendOnline \in BOOLEAN
  /\ isProcessing = FALSE
  /\ run = NoRun
  /\ processedImages = <<>>
  /\ progressLog = <<>>
  /\ toast = "none"
  /\ abandoned = 0
  /\ runsStarted = 0

\* checkHealth(): backendOnline = await api.healthCheck()
checkHealth ==
  /\ \E online \in BOOLEAN : backendOnline' = online
  /\ UNCHANGED <<images, isProcessing, run, processedImages, progressLog, toast,
                 abandoned, runsStarted>>
  /\ UNCHANGED <<histVars, dragVars, storeVars>>

\* The indices (1-based) of the chunk that starts at the 0-based batchStart.
ChunkIndices(batchStart, total) == (batchStart + 1)..Min(batchStart + BATCH_SIZE, total)

\* Mutant: every remaining request goes out at once, with no chunking.
IssueAll(requests, batchStart) ==
  [i \in 1..Len(requests) |-> IF i > batchStart THEN "pending" ELSE requests[i]]
\* batch.map(async (img) => ...): one api.preview request per image of the chunk.
IssueChunk(requests, batchStart) ==
  [i \in 1..Len(requests) |->
     IF i \in ChunkIndices(batchStart, Len(requests)) THEN "pending" ELSE requests[i]]

\* What is known of the requests issued last: by _triggerPreview (one image)
\* or by a processAll run (id 0: all images), and the position they carry.
Issue(kind, id, settings) ==
  [kind |-> kind, id |-> id, manual_x |-> settings.manual_x,
   manual_y |-> settings.manual_y]
NoRequest == Issue("none", 0, DEFAULT_SETTINGS)

\* Mutant: the requests read the live configuration of the settings module.
CarriedLive(r) == current
\* The settings argument of api.preview in run r: the const currentSettings.
Carried(r) == r.currentSettings
\* The settings that the requests of the chunk at batchStart carry (an
\* observation kept with the run: sent[i] is what request i was sent with).
SendChunk(r, batchStart) ==
  [i \in 1..Len(r.requests) |->
     IF i \in ChunkIndices(batchStart, Len(r.requests)) THEN Carried(r) ELSE r.sent[i]]

processAll ==
  /\ (Len(images) = 0 \/ isProcessing \/ ~backendOnline \/ runsStarted < MaxRuns)
  /\ IF Len(images) = 0 \/ isProcessing \/ ~backendOnline
     THEN UNCHANGED <<batchVars, lastIssued>>
     ELSE /\ isProcessing' = TRUE
          /\ lastIssued' = Issue("batch", 0, current)
          /\ progressLog' = <<0>>
          /\ LET r == [state |-> "awaiting",
                       images |-> images,
                       batchStart |-> 0,
                       requests |-> IssueChunk([i \in 1..Len(images) |-> "none"], 0),
                       results |-> <<>>,
                       completed |-> 0,
                       chunks |-> <<Cardinality(ChunkIndices(0, Len(images)))>>,
                       outOfOrder |-> FALSE,
                       \* settings.getCurrent(): a copy of current
                       currentSettings |-> current,
                       sent |-> [i \in 1..Len(images) |-> UndefinedSettings]]
             IN run' = [r EXCEPT !.sent = SendChunk(r, 0)]
          /\ runsStarted' = runsStarted + 1
          /\ UNCHANGED <<images, backendOnline, processedImages, toast, abandoned>>
  /\ UNCHANGED <<histVars, placementVars, storeVars>>

\* Mutant: the null of a failed image is pushed like a result.
CollectedAlways(results, status, img) == Append(results, img)
\* Mutant: results are put in front (unshift), so the list comes out reversed.
CollectedFront(results, status, img) ==
  IF status = "success" THEN <<img>> \o results ELSE results
\* `if (r) results.push(r)`: the callback returned null unless res.success.
Collected(results, status, img) ==
  IF status = "success" THEN Append(results, img) ELSE results

\* `for (const r of batchResults) { if (r) results.push(r); completed++; showProgress }`
\* over the chunk's slots from index i to index last.
RECURSIVE CollectResults(_, _, _, _)
CollectResults(r, i, last, log) ==
  IF i > last THEN <<r, log>>
  ELSE LET pushed == Collected(r.results, r.requests[i], r.images[i])
           next == [r EXCEPT !.results = pushed, !.completed = r.completed + 1]
       IN CollectResults(next, i + 1, last,
                         Append(log, Percent(next.completed, Len(r.images))))

\* What follows `await Promise.all(batchPromises)` once every promise is fulfilled.
AfterChunk(r) ==
  LET total == Len(r.images)
      last == Min(r.batchStart + BATCH_SIZE, total)
      collected == CollectResults(r, r.batchStart + 1, last, progressLog)
      after == [collected[1] EXCEPT !.batchStart = r.batchStart + BATCH_SIZE]
  IN IF after.batchStart < total
     THEN \* next iteration of the for loop: the next chunk's requests go out
          /\ run' = [after EXCEPT
                       !.requests = IssueChunk(after.requests, after.batchStart),
                       !.sent = SendChunk(after, after.batchStart),
                       !.chunks = Append(after.chunks,
                                         Cardinality(ChunkIndices(after.batchStart, total)))]
          /\ progressLog' = collected[2]
          /\ UNCHANGED <<isProcessing, processedImages>>
     ELSE \* hideProgress, setResults(results), then the finally clause
          /\ run' = [after EXCEPT !.state = "published"]
          /\ progressLog' = collected[2]
          /\ processedImages' = after.results
          /\ isProcessing' = FALSE

\* A response to request i of the active chunk: success, success === false, or
\* a transport failure that makes api.preview throw.
ResponseKinds == {"success", "failure", "error"}
respond(i, kind) ==
  /\ run.state = "awaiting"
  /\ i \in 1..Len(run.requests)
  /\ run.requests[i] = "pending"
  /\ LET r == [run EXCEPT !.requests[i] = kind,
                          !.outOfOrder = run.outOfOrder
                                         \/ \E j \in 1..(i - 1) : run.requests[j] = "pending"]
         pending == {j \in 1..Len(r.requests) : r.requests[j] = "pending"}
     IN IF kind = "error"
        THEN \* Promise.all rejects at once; catch shows the toast, finally resets
             /\ run' = [r EXCEPT !.state = "aborted"]
             /\ toast' = "error"
             /\ isProcessing' = FALSE
             /\ abandoned' = abandoned + Cardinality(pending)
             /\ UNCHANGED <<processedImages, progressLog>>
        ELSE IF pending # {}
        THEN /\ run' = r
             /\ UNCHANGED <<isProcessing, processedImages, progressLog, toast, abandoned>>
        ELSE /\ AfterChunk(r)
             /\ UNCHANGED <<toast, abandoned>>
  /\ UNCHANGED <<images, backendOnline, runsStarted>>
  /\ UNCHANGED <<histVars, dragVars, storeVars>>

\* A request of an aborted run settles: nobody is waiting for it any more.
abandonedSettles ==
  /\ abandoned > 0
  /\ abandoned' = abandoned - 1
  /\ UNCHANGED <<images, backendOnline, isProcessing, run, processedImages,
                 progressLog, toast, runsStarted>>
  /\ UNCHANGED <<histVars, dragVars, storeVars>>

BatchNext ==
  \/ checkHealth
  \/ processAll
  \/ \E i \in 1..MaxImages, kind \in ResponseKinds : respond(i, kind)
  \/ abandonedSettles

(***************************************************************************)
(* ImageStore (upload module) and the face detection of the application    *)
(* script that its onImagesChanged callback starts.                        *)
(*                                                                         *)
(* A file is its name, as the segments between the dots, and whether       *)
(* FileReader can read it.  A record is represented by its id; the object  *)
(* URL of a record carries the record's id.                                *)
(***************************************************************************)
\* History counters count 0, 1, and 2 for "two or more".
Counted(n) == IF n > 2 THEN 2 ELSE n

\* `const VALID_EXTENSIONS = ['.png', '.jpg', '.jpeg', '.webp']`, without the dots.
VALID_EXTENSIONS == {"png", "jpg", "jpeg", "webp"}
\* `const MAX_FILES = 100`
MAX_FILES == 100

Png == [name |-> <<"a", "png">>, readable |-> TRUE]
Txt == [name |-> <<"notes", "txt">>, readable |-> TRUE]
\* A file whose name has no dot at all.
Bare == [name |-> <<"png">>, readable |-> TRUE]
\* An upper-case extension, and a file the FileReader fails on.
Broken == [name |-> <<"B", "JPG">>, readable |-> FALSE]
FileKinds == {Png, Txt, Bare, Broken}

\* String.prototype.toLowerCase on the segments that occur.
toLowerCase(str) ==
  CASE str = "JPG" -> "jpg"
    [] str = "B" -> "b"
    [] OTHER -> str
\* `file.name.split('.').pop().toLowerCase()`; the leading '.' is left out on
\* both sides of the comparison.
Ext(file) == toLowerCase(file.name[Len(file.name)])
\* `VALID_EXTENSIONS.includes(ext)`
ValidExtension(file) == Ext(file) \in VALID_EXTENSIONS

\* The files a single call is made with: up to MaxFiles of any kind, or one
\* more valid file than the store can hold.
MaxFiles == 2
\* How many times addFiles is called, and how many records the user removes.
MaxCalls == 2
MaxRemoves == 1
OverCap == [i \in 1..(MAX_FILES + 1) |-> Png]
SeqsUpTo(S, n) == UNION {[1..k -> S] : k \in 1..n}
FileLists == SeqsUpTo(FileKinds, MaxFiles) \cup {OverCap}

\* What a call did with each of its files.
Outcome(o, id) == [o |-> o, id |-> id]
Pending == Outcome("pending", 0)
NewCall(files) ==
  [files |-> files, pos |-> 1, stage |-> "running",
   outcomes |-> [i \in 1..Len(files) |-> Pending], capNotices |-> 0,
   startedAt |-> Len(images), overlapped |-> FALSE]
Set(c, o) == [c EXCEPT !.outcomes[c.pos] = o, !.pos = @ + 1]

\* `ui.showToast('Maximum 100 files ...'); break;`
CapBreaks(c) == [Set(c, Outcome("cap", 0)) EXCEPT !.stage = "done", !.capNotices = @ + 1]

\* The for loop of addFiles from file c.pos on, up to its next await or its
\* end; n is images.length, which no step of this stretch changes.
RECURSIVE Scan(_, _)
Scan(c, n) ==
  IF c.stage = "done" THEN c
  ELSE IF c.pos > Len(c.files) THEN [c EXCEPT !.stage = "done"]
  ELSE IF ~ValidExtension(c.files[c.pos]) THEN Scan(Set(c, Outcome("unsupported", 0)), n)
  ELSE IF n >= MAX_FILES THEN Scan(CapBreaks(c), n)
  ELSE [c EXCEPT !.stage = "decoding"]

Decoding == {k \in 1..Len(calls) : calls[k].stage = "decoding"}
\* Another activation is suspended while call k runs.
Overlaps(cs) == [k \in 1..Len(cs) |->
                   [cs[k] EXCEPT !.overlapped =
                      @ \/ (cs[k].stage = "decoding"
                            /\ \E j \in 1..Len(cs) : j # k /\ cs[j].stage = "decoding")]]

\* The request log, with an entry for every id handed out so far.
Extended(log, n) == [i \in 1..n |-> IF i <= Len(log) THEN log[i] ELSE 0]
Issued(log, ids) == [i \in 1..Len(log) |-> IF i \in ids THEN Counted(log[i] + 1) ELSE log[i]]
\* _runFaceDetection(img) up to its await, for each image of ids.
runFaceDetection(ids) ==
  /\ detections' = detections \cup ids
  /\ detectLog' = Issued(Extended(detectLog, nextId'), ids)
\* A handler that starts no detection.
NoDetection ==
  /\ detections' = detections
  /\ detectLog' = Extended(detectLog, nextId')
\* onImagesChanged(images) of the application script.
onImagesChanged(imgs) ==
  IF faceDetectEnabled /\ Len(imgs) > 0
  THEN runFaceDetection({imgs[Len(imgs)]})
  ELSE NoDetection

\* The part of the state the upload module never touches.
StoreFrame ==
  /\ UNCHANGED <<backendOnline, isProcessing, run, processedImages, progressLog,
                 toast, abandoned, runsStarted>>
  /\ UNCHANGED <<histVars, dragVars, hookVars, waitVars>>

\* The store after the user has loaded the images: every record has its
\* object URL, nothing is cached, no call is active.
StoreLoaded ==
  /\ faceCache = {}
  /\ previewURLs = [i \in 1..Len(images) |-> 0]
  /\ calls = <<>>
  /\ nextId = Len(images)
  /\ faceDetectEnabled = FALSE
  /\ detections = {}
  /\ detectLog = [i \in 1..Len(images) |-> 0]
  /\ isManualMode = FALSE
  /\ placeTimers = 0
  /\ activeRuns = 0
  /\ attempts = 0
  /\ probes = 0
  /\ retryTimers = 0
  /\ settled = "none"

\* addFiles(files) up to its first await (or its end).
addFiles(files) ==
  /\ Len(calls) < MaxCalls
  /\ UNCHANGED <<images, faceCache, previewURLs, nextId, faceDetectEnabled>>
  /\ LET c == Scan(NewCall(files), Len(images))
     IN /\ calls' = Overlaps(Append(calls, c))
        /\ IF c.stage = "done" THEN onImagesChanged(images) ELSE NoDetection
  /\ StoreFrame

\* `await _fileToBase64(file)` of call k settles and the call runs on to its
\* next await or to its end.
fileRead(k) ==
  /\ k \in Decoding
  /\ LET c == calls[k]
         id == nextId + 1
     IN IF c.files[c.pos].readable
        THEN /\ images' = Append(images, id)
             /\ previewURLs' = [i \in 1..id |-> IF i = id THEN 0 ELSE previewURLs[i]]
             /\ nextId' = id
             /\ calls' = [calls EXCEPT ![k] = Scan(Set(c, Outcome("stored", id)),
                                                   Len(images'))]
        ELSE /\ calls' = [calls EXCEPT ![k] = Scan(Set(c, Outcome("unreadable", 0)),
                                                   Len(images))]
             /\ UNCHANGED <<images, previewURLs, nextId>>
  /\ IF calls'[k].stage = "done" THEN onImagesChanged(images') ELSE NoDetection
  /\ UNCHANGED <<faceCache, faceDetectEnabled>>
  /\ StoreFrame

(***************************************************************************)
(* ImageStore (upload module): removal of records while a run is active.   *)
(* upload.setDisabled(true) only toggles the dropzone's class; the remove  *)
(* buttons of the thumbnails and the clear button stay active.             *)
(***************************************************************************)
\* The largest number of loaded images in the store/pipeline interplay.
MaxStoreImages == 3

Range(seq) == {seq[i] : i \in 1..Len(seq)}
\* Mutant: the record found changes places with the last one, which is dropped.
WithoutSwap(seq, id) ==
  IF \E k \in 1..Len(seq) : seq[k] = id
  THEN [i \in 1..(Len(seq) - 1) |-> IF seq[i] = id THEN seq[Len(seq)] ELSE seq[i]]
  ELSE seq
\* images.splice(idx, 1) at the index found by findIndex (nothing if -1).
Without(seq, id) == SelectSeq(seq, LAMBDA x : x # id)

StoreBatchInit ==
  /\ \E n \in 1..MaxStoreImages : images = [i \in 1..n |-> i]
  /\ backendOnline \in BOOLEAN
  /\ isProcessing = FALSE
  /\ run = NoRun
  /\ processedImages = <<>>
  /\ progressLog = <<>>
  /\ toast = "none"
  /\ abandoned = 0
  /\ runsStarted = 0

\* URL.revokeObjectURL on the object URLs of ids.
Revoked(urls, ids) == [i \in 1..Len(urls) |-> IF i \in ids THEN Counted(urls[i] + 1) ELSE urls[i]]

removeImage(id) ==
  /\ images' = Without(images, id)
  /\ previewURLs' = IF id \in Range(images) THEN Revoked(previewURLs, {id}) ELSE previewURLs
  /\ faceCache' = IF id \in Range(images) THEN faceCache \ {id} ELSE faceCache
  /\ UNCHANGED <<calls, nextId, faceDetectEnabled>>
  /\ onImagesChanged(images')
  /\ UNCHANGED <<backendOnline, isProcessing, run, processedImages, progressLog,
                 toast, abandoned, runsStarted>>
  /\ UNCHANGED <<histVars, dragVars, hookVars, waitVars>>

clearAll ==
  /\ previewURLs' = Revoked(previewURLs, Range(images))
  /\ images' = <<>>
  /\ faceCache' = {}
  /\ UNCHANGED <<calls, nextId, faceDetectEnabled>>
  /\ onImagesChanged(images')
  /\ UNCHANGED <<backendOnline, isProcessing, run, processedImages, progressLog,
                 toast, abandoned, runsStarted>>
  /\ UNCHANGED <<histVars, dragVars, hookVars, waitVars>>

StoreBatchNext ==
  \/ BatchNext
  \/ \E id \in 1..MaxStoreImages : removeImage(id)
  \/ clearAll

\* The face-detect checkbox changes.
faceToggle ==
  /\ faceDetectEnabled' = ~faceDetectEnabled
  /\ UNCHANGED <<images, faceCache, previewURLs, calls, nextId>>
  /\ IF faceDetectEnabled'
     THEN runFaceDetection({id \in Range(images) : id \notin faceCache})
     ELSE NoDetection
  /\ StoreFrame

\* `await api.detectFaces(img.base64)` of _runFaceDetection(img) settles.
\* Requests for the same image are told apart by detectLog only.
detectResponds(id, kind) ==
  /\ id \in detections
  /\ detections' = detections \ {id}
  /\ faceCache' = IF kind = "success" THEN faceCache \cup {id} ELSE faceCache
  /\ UNCHANGED <<images, previewURLs, calls, nextId, faceDetectEnabled, detectLog>>
  /\ StoreFrame

\* The ids the user asks to remove: the first and the last record, and an id
\* that no record has.
RemoveIds ==
  {0} \cup (IF Len(images) = 0 THEN {} ELSE {images[1], images[Len(images)]})
RemovesLeft == Cardinality({i \in 1..Len(previewURLs) : previewURLs[i] > 0}) < MaxRemoves

\* The store before the calls: empty, or one record below the cap.
StoreSizes == {0, MAX_FILES - 1}
UploadInit ==
  /\ \E n \in StoreSizes : images = [i \in 1..n |-> i]
  /\ backendOnline = FALSE
  /\ isProcessing = FALSE
  /\ run = NoRun
  /\ processedImages = <<>>
  /\ progressLog = <<>>
  /\ toast = "none"
  /\ abandoned = 0
  /\ runsStarted = 0
  /\ StoreLoaded

\* The user drops the over-cap selection into an empty store that has seen
\* no call, and drops nothing else until that call has finished.
Droppable(files) ==
  IF files = OverCap
  THEN Len(images) = 0 /\ Len(calls) = 0
  ELSE \A k \in 1..Len(calls) : calls[k].files = OverCap => calls[k].stage = "done"

UploadNext ==
  \/ \E files \in FileLists : Droppable(files) /\ addFiles(files)
  \/ \E k \in 1..MaxCalls : fileRead(k)
  \/ \E id \in RemoveIds : RemovesLeft /\ removeImage(id)
  \/ RemovesLeft /\ clearAll

(***************************************************************************)
(* The image list of the React hook useWatermark (part_006): addImages     *)
(* decodes every valid file first and hands the new records to setImages   *)
(* at its end.                                                             *)
(***************************************************************************)
\* The for loop of addImages from file c.pos on, up to its next await or to
\* the end of the loop.
RECURSIVE HookScan(_)
HookScan(c) ==
  IF c.pos > Len(c.files) THEN [c EXCEPT !.stage = "done"]
  ELSE IF ~ValidExtension(c.files[c.pos]) THEN HookScan(Set(c, Outcome("unsupported", 0)))
  ELSE [c EXCEPT !.stage = "decoding"]

\* newImages of call c: the ids of the records it has built, in order.
RECURSIVE NewImagesUpTo(_, _)
NewImagesUpTo(c, n) ==
  IF n = 0 THEN <<>>
  ELSE IF c.outcomes[n].o = "decoded"
       THEN Append(NewImagesUpTo(c, n - 1), c.outcomes[n].id)
       ELSE NewImagesUpTo(c, n - 1)
NewImages(c) == NewImagesUpTo(c, Len(c.files))

\* The updater passed to setImages: `total > 100` keeps prev.
TooMany(prev, c) == Len(prev) + Len(NewImages(c)) > MAX_FILES
Marked(c, o) ==
  [c EXCEPT !.outcomes = [i \in 1..Len(c.files) |->
                            IF c.outcomes[i].o = "decoded"
                            THEN Outcome(o, c.outcomes[i].id)
                            ELSE c.outcomes[i]]]
\* The call record of c once the loop is over and setImages has been applied.
SetImages(c) ==
  IF c.stage # "done" THEN c
  ELSE IF TooMany(images, c) THEN [Marked(c, "rejected") EXCEPT !.capNotices = @ + 1]
  ELSE Marked(c, "stored")
ImagesAfter(c) ==
  IF c.stage = "done" /\ ~TooMany(images, c) THEN images \o NewImages(c) ELSE images

\* addImages(files) up to its first await (or its end).
addImages(files) ==
  /\ Len(calls) < MaxCalls
  /\ LET c == HookScan(NewCall(files))
     IN /\ calls' = Overlaps(Append(calls, SetImages(c)))
        /\ images' = ImagesAfter(c)
  /\ UNCHANGED <<faceCache, previewURLs, nextId, faceDetectEnabled>>
  /\ NoDetection
  /\ StoreFrame

\* `await fileToBase64(file)` of call k settles and the call runs on.
hookFileRead(k) ==
  /\ k \in Decoding
  /\ LET c == calls[k]
         id == nextId + 1
         next == IF c.files[c.pos].readable
                 THEN HookScan(Set(c, Outcome("decoded", id)))
                 ELSE HookScan(Set(c, Outcome("unreadable", 0)))
     IN /\ IF c.files[c.pos].readable
           THEN /\ previewURLs' = [i \in 1..id |-> IF i = id THEN 0 ELSE previewURLs[i]]
                /\ nextId' = id
           ELSE UNCHANGED <<previewURLs, nextId>>
        /\ calls' = [calls EXCEPT ![k] = SetImages(next)]
        /\ images' = ImagesAfter(next)
  /\ UNCHANGED <<faceCache, faceDetectEnabled>>
  /\ NoDetection
  /\ StoreFrame

\* removeImage(id) of the hook.
hookRemoveImage(id) ==
  /\ previewURLs' = IF id \in Range(images) THEN Revoked(previewURLs, {id}) ELSE previewURLs
  /\ images' = Without(images, id)
  /\ processedImages' = Without(processedImages, id)
  /\ UNCHANGED <<faceCache, calls, nextId, faceDetectEnabled>>
  /\ NoDetection
  /\ UNCHANGED <<backendOnline, isProcessing, run, progressLog, toast, abandoned,
                 runsStarted>>
  /\ UNCHANGED <<histVars, dragVars, hookVars, waitVars>>

\* clearImages() of the hook.
clearImages ==
  /\ previewURLs' = Revoked(previewURLs, Range(images))
  /\ images' = <<>>
  /\ processedImages' = <<>>
  /\ UNCHANGED <<faceCache, calls, nextId, faceDetectEnabled>>
  /\ NoDetection
  /\ UNCHANGED <<backendOnline, isProcessing, run, progressLog, toast, abandoned,
                 runsStarted>>
  /\ UNCHANGED <<histVars, dragVars, hookVars, waitVars>>

HookNext ==
  \/ \E files \in FileLists : Droppable(files) /\ addImages(files)
  \/ \E k \in 1..MaxCalls : hookFileRead(k)
  \/ \E id \in RemoveIds : RemovesLeft /\ hookRemoveImage(id)
  \/ RemovesLeft /\ clearImages

(***************************************************************************)
(* The React client's runs: useWatermark.processAll and the handlers of    *)
(* App that start it.  The configuration of the hook (its `settings`       *)
(* state) is held in current, its error state in toast.  With at most five *)
(* images a run has one request and one await.                             *)
(***************************************************************************)
\* Activations and timeouts the model follows at a time.
MaxActive == 2

\* useWatermark.processAll up to its await.
hookProcessAll ==
  IF Len(images) = 0
  THEN /\ toast' = "error"
       /\ UNCHANGED <<isProcessing, processedImages, progressLog, activeRuns>>
  ELSE /\ isProcessing' = TRUE
       /\ progressLog' = <<0>>
       /\ toast' = "none"
       /\ processedImages' = <<>>
       /\ activeRuns' = activeRuns + 1

\* What the handlers of App leave alone.
AppFrame ==
  /\ UNCHANGED <<images, backendOnline, run, abandoned, runsStarted>>
  /\ UNCHANGED <<faceCache, previewURLs, calls, nextId, faceDetectEnabled,
                 detections, detectLog>>
  /\ UNCHANGED <<undoStack, redoStack, nullStacks, isRestoring, debounceTimer, timers,
                 storage, initialized, writeFailures, lastCall, burstBase, undoTrack,
                 resetTrack>>
  /\ UNCHANGED <<dragVars, waitVars>>

\* `const canProcess = images.length > 0 && !isProcessing && backendOnline`
canProcess == Len(images) > 0 /\ ~isProcessing /\ backendOnline

\* The process button (disabled unless canProcess) is clicked.
processClick ==
  /\ canProcess
  /\ activeRuns < MaxActive
  /\ hookProcessAll
  /\ UNCHANGED <<current, isManualMode, placeTimers>>
  /\ AppFrame

\* Ctrl+Shift+B: `if (images.length > 0 && !isProcessing) processAll()`
shortcut ==
  /\ activeRuns < MaxActive
  /\ IF Len(images) > 0 /\ ~isProcessing
     THEN hookProcessAll
     ELSE UNCHANGED <<isProcessing, processedImages, progressLog, toast, activeRuns>>
  /\ UNCHANGED <<current, isManualMode, placeTimers>>
  /\ AppFrame

\* The "Place manually" button, rendered for a single image with a result
\* while no run is active.
manualToggle ==
  /\ Len(images) = 1 /\ Len(processedImages) > 0 /\ ~isProcessing
  /\ isManualMode' = ~isManualMode
  /\ UNCHANGED <<current, placeTimers, activeRuns, isProcessing, processedImages,
                 progressLog, toast>>
  /\ AppFrame

\* getRelativePos: where the clicks land, in hundredths of the image's extent.
ManualPlaces == {<<37, 81>>, <<62, 19>>}

\* handleManualPlace(x, y): a click on the displayed image in manual mode.
handleManualPlace(x, y) ==
  /\ isManualMode
  /\ Len(processedImages) > 0
  /\ placeTimers < MaxActive
  /\ current' = ObjectAssign(current, [manual_x |-> Num(x), manual_y |-> Num(y)])
  /\ isManualMode' = FALSE
  /\ placeTimers' = placeTimers + 1
  /\ UNCHANGED <<activeRuns, isProcessing, processedImages, progressLog, toast>>
  /\ AppFrame

\* `setTimeout(() => processAll(), 50)` fires.
placeTimerFires ==
  /\ placeTimers > 0
  /\ activeRuns < MaxActive
  /\ placeTimers' = placeTimers - 1
  /\ hookProcessAll
  /\ UNCHANGED <<current, isManualMode>>
  /\ AppFrame

\* The await of a run settles: the results are set, or the catch clause sets
\* the error; the finally clause resets isProcessing.
hookRunSettles(kind) ==
  /\ activeRuns > 0
  /\ activeRuns' = activeRuns - 1
  /\ IF kind = "success"
     THEN /\ processedImages' = images
          /\ progressLog' = <<0, 100>>
          /\ UNCHANGED toast
     ELSE /\ toast' = "error"
          /\ UNCHANGED <<processedImages, progressLog>>
  /\ isProcessing' = FALSE
  /\ UNCHANGED <<current, isManualMode, placeTimers>>
  /\ AppFrame

\* The React client with one image or two, or none.
HookRunInit ==
  /\ images \in {<<>>, <<1>>, <<1, 2>>}
  /\ backendOnline \in BOOLEAN
  /\ isProcessing = FALSE
  /\ run = NoRun
  /\ processedImages = <<>>
  /\ progressLog = <<>>
  /\ toast = "none"
  /\ abandoned = 0
  /\ runsStarted = 0
  /\ StoreLoaded

HookRunNext ==
  \/ checkHealth
  \/ processClick
  \/ shortcut
  \/ manualToggle
  \/ \E p \in ManualPlaces : handleManualPlace(p[1], p[2])
  \/ placeTimerFires
  \/ \E kind \in {"success", "error"} : hookRunSettles(kind)

\* A run over two chunks while the settings controls are used; every
\* response is a success and every write to sessionStorage succeeds.
TwoChunkInit ==
  /\ images = [i \in 1..(BATCH_SIZE + 1) |-> i]
  /\ backendOnline = TRUE
  /\ isProcessing = FALSE
  /\ run = NoRun
  /\ processedImages = <<>>
  /\ progressLog = <<>>
  /\ toast = "none"
  /\ abandoned = 0
  /\ runsStarted = 0
  /\ StoreLoaded

TwoChunkNext ==
  \/ initWith("ok")
  \/ processAll
  \/ \E i \in 1..(BATCH_SIZE + 1) : respond(i, "success")
  \/ \E pct \in SliderValues : update(OpacityPartial(pct))
  \/ resetDefaults
  \/ commitWith("ok")
  \/ undoWith("ok")
  \/ redoWith("ok")

(***************************************************************************)
(* waitForBackend(port, maxAttempts) of the desktop shell (main.js).       *)
(***************************************************************************)
\* The default of the parameter is 60; the model runs with a small value.
maxAttempts == 5
\* Probes (and retry timeouts) the model follows at a time.
MaxOutstanding == 3
\* The model stops counting probes beyond this.
AttemptCap == maxAttempts + 2

\* What waitForBackend leaves alone.
WaitFrame ==
  /\ UNCHANGED <<faceCache, previewURLs, calls, nextId, faceDetectEnabled,
                 detections, detectLog, hookVars>>
  /\ UNCHANGED <<histVars, batchVars, dragVars>>

\* resolve / reject of a promise: only the first call settles it.
Settle(p, outcome) == IF p = "pending" THEN outcome ELSE p

\* retry(): setTimeout(check, 500)
retry(n) == n + 1

\* waitForBackend(port): the promise is created and check() runs once.
waitForBackend ==
  /\ settled = "none"
  /\ settled' = "pending"
  /\ attempts' = 1
  /\ probes' = 1
  /\ UNCHANGED retryTimers
  /\ WaitFrame

\* A timeout of retry fires: check() increments attempts and sends a probe.
check ==
  /\ retryTimers > 0
  /\ attempts < AttemptCap
  /\ probes < MaxOutstanding
  /\ retryTimers' = retryTimers - 1
  /\ attempts' = attempts + 1
  /\ probes' = probes + 1
  /\ UNCHANGED settled
  /\ WaitFrame

\* The response callback of a probe: 200 resolves, any other status retries.
StatusCodes == {200, 503}
probeAnswers(statusCode) ==
  /\ probes > 0
  /\ probes' = probes - 1
  /\ IF statusCode = 200
     THEN /\ settled' = Settle(settled, "resolved")
          /\ UNCHANGED retryTimers
     ELSE /\ retryTimers < MaxOutstanding
          /\ retryTimers' = retry(retryTimers)
          /\ UNCHANGED settled
  /\ UNCHANGED attempts
  /\ WaitFrame

\* What the 'error' listener does with t retry timeouts pending.
OnError(t) ==
  IF attempts >= maxAttempts
  THEN [settled |-> Settle(settled, "rejected"), retryTimers |-> t]
  ELSE [settled |-> settled, retryTimers |-> retry(t)]

\* A probe fails to connect: the 'error' listener runs.
probeErrors ==
  /\ probes > 0
  /\ retryTimers < MaxOutstanding
  /\ probes' = probes - 1
  /\ settled' = OnError(retryTimers).settled
  /\ retryTimers' = OnError(retryTimers).retryTimers
  /\ UNCHANGED attempts
  /\ WaitFrame

\* A probe gets no answer within 1000 ms: the timeout listener calls
\* req.destroy() and retry().  A request destroyed before its response has
\* arrived emits 'error' (socket hang up), so the 'error' listener runs too.
probeTimesOut ==
  /\ probes > 0
  /\ retryTimers + 1 < MaxOutstanding
  /\ probes' = probes - 1
  /\ settled' = OnError(retry(retryTimers)).settled
  /\ retryTimers' = OnError(retry(retryTimers)).retryTimers
  /\ UNCHANGED attempts
  /\ WaitFrame

WaitNext ==
  \/ waitForBackend
  \/ check
  \/ \E statusCode \in StatusCodes : probeAnswers(statusCode)
  \/ probeErrors
  \/ probeTimesOut

\* The store with face detection: one image or none, calls with a single file.
FaceInit ==
  /\ images \in {<<>>, <<1>>}
  /\ backendOnline = TRUE
  /\ isProcessing = FALSE
  /\ run = NoRun
  /\ processedImages = <<>>
  /\ progressLog = <<>>
  /\ toast = "none"
  /\ abandoned = 0
  /\ runsStarted = 0
  /\ StoreLoaded

FaceNext ==
  \/ \E files \in {<<Png>>, <<Txt>>} : addFiles(files)
  \/ \E k \in 1..MaxCalls : fileRead(k)
  \/ \E id \in RemoveIds : removeImage(id)
  \/ clearAll
  \/ faceToggle
  \/ \E id \in 1..(1 + MaxCalls), kind \in ResponseKinds : detectResponds(id, kind)

(***************************************************************************)
(* PlacementController: _bindDrag of the preview module, with the owner's  *)
(* onPositionChange callback and the two toggles of the application script.*)
(*                                                                         *)
(* Lengths are in px.  The overlay's top-left corner is the origin of the  *)
(* client coordinates and the overlay is 100 px wide and high, so that a   *)
(* px is a hundredth of the normalized range.  While placement mode is off *)
(* the overlay has the hidden attribute (display: none): its rectangle and  *)
(* the handle's offsets are 0.                                             *)
(***************************************************************************)
Overlay == [width |-> 100, height |-> 100]
HandleBox == [width |-> 10, height |-> 10]
\* `rect.width / 10`, `Math.round(normX * 10) / 10`
GridDivisions == 10
\* How many mouse buttons the environment presses at the same time.
MaxButtons == 2

Max(a, b) == IF a > b THEN a ELSE b
Clamp(v, lo, hi) == Max(lo, Min(v, hi))
\* Math.round(n / d) for d > 0: the nearest integer, halves upwards.
RoundDiv(n, d) == (2 * n + d) \div (2 * d)

\* The geometry the handlers read from the DOM.
RectWidth == IF dragEnabled THEN Overlay.width ELSE 0
RectHeight == IF dragEnabled THEN Overlay.height ELSE 0
OffsetLeft == IF dragEnabled THEN handle[1] ELSE 0
OffsetTop == IF dragEnabled THEN handle[2] ELSE 0
OffsetWidth == IF dragEnabled THEN HandleBox.width ELSE 0
OffsetHeight == IF dragEnabled THEN HandleBox.height ELSE 0

\* `Math.round(v / grid) * grid` with `grid = extent / 10`
Snapped(v, extent) ==
  LET grid == extent \div GridDivisions IN RoundDiv(v, grid) * grid

\* onMouseMove: the new left (or top) of the handle.  The rectangle is the one
\* read at mousedown, when the overlay was shown.
MovedTo(startOffset, delta, extent, handleExtent) ==
  LET clamped == Max(0, Min(startOffset + delta, extent - handleExtent))
  IN IF snapToGrid THEN Snapped(clamped, extent) ELSE clamped

\* `Math.max(0, Math.min(1, offset / extent))`, in hundredths; 0 / 0 is NaN.
Normalized(offset, extent) ==
  IF extent = 0
  THEN (IF offset = 0 THEN NaN ELSE Num(100))
  ELSE Num(Clamp((offset * 100) \div extent, 0, 100))

\* The element under the pointer.
OverHandle(p) ==
  /\ dragEnabled
  /\ handle[1] <= p[1] /\ p[1] <= handle[1] + HandleBox.width
  /\ handle[2] <= p[2] /\ p[2] <= handle[2] + HandleBox.height
OverOverlay(p) ==
  /\ dragEnabled
  /\ 0 <= p[1] /\ p[1] <= Overlay.width
  /\ 0 <= p[2] /\ p[2] <= Overlay.height
TargetAt(p) ==
  IF OverHandle(p) THEN "handle" ELSE IF OverOverlay(p) THEN "surface" ELSE "outside"

\* Inputs of the environment: where in the handle a press lands (its corner),
\* where the pointer moves to, where a click lands.
GrabOffsets == {<<0, 0>>}
PointerPositions == {<<0, 0>>, <<37, 81>>}
ClickPositions == {<<37, 81>>}

Event(handler, emits, x, y, requested) ==
  [handler |-> handler, emits |-> emits, x |-> x, y |-> y, requested |-> requested]
NoEvent == Event("none", 0, Null, Null, FALSE)
\* The history of one drag: where the handle was at its first mousedown,
\* whether a move was handled, and how many position-change events it has
\* emitted so far (0, 1, or 2 for "two or more").
NoGesture == [kind |-> "none", phase |-> "none", emits |-> 0, from |-> <<0, 0>>,
              moved |-> FALSE]
\* A finished drag is forgotten at the next event.
Ongoing(g) == IF g.phase = "active" THEN g ELSE NoGesture

DragConstructed ==
  /\ dragEnabled = FALSE
  /\ snapToGrid = FALSE
  /\ isDragging = FALSE
  /\ handle = <<0, 0>>
  /\ dragStart = [x |-> 0, y |-> 0, left |-> 0, top |-> 0]
  /\ listeners = 0
  /\ pointer = <<0, 0>>
  /\ buttons = 0
  /\ upQueue = 0
  /\ clickDue = FALSE
  /\ lastEvent = NoEvent
  /\ gesture = NoGesture
  /\ previewRequests = {}
  /\ lastIssued = NoRequest

\* The session in which the drag surface is used: one image is loaded or
\* none, the backend is online or not.
DragInit ==
  /\ images \in {<<>>, <<1>>}
  /\ backendOnline \in BOOLEAN
  /\ isProcessing = FALSE
  /\ run = NoRun
  /\ processedImages = <<>>
  /\ progressLog = <<>>
  /\ toast = "none"
  /\ abandoned = 0
  /\ runsStarted = 0

\* No DOM event is being dispatched; preview.init runs after settings.init.
Idle == initialized = "ok" /\ upQueue = 0 /\ ~clickDue

\* _triggerPreview up to its await: the request goes out unless it returns early.
Requests == Len(images) # 0 /\ backendOnline
\* Mutant: only manual_x is updated.
onPositionChangeX(handler, x, y) ==
  /\ updateCore("update", [manual_x |-> x])
  /\ lastEvent' = Event(handler, 1, x, y, Requests)
  /\ UNCHANGED <<previewRequests, lastIssued>>
\* onPositionChange(normX, normY) of the application script.
onPositionChange(handler, x, y) ==
  /\ updateCore("update", [manual_x |-> x, manual_y |-> y])
  /\ lastEvent' = Event(handler, 1, x, y, Requests)
  /\ previewRequests' =
       IF Requests
       THEN previewRequests \cup {[id |-> images[1], manual_x |-> current'.manual_x,
                                   manual_y |-> current'.manual_y]}
       ELSE previewRequests
  /\ lastIssued' = IF Requests THEN Issue("preview", images[1], current') ELSE lastIssued
\* A handler that returns without calling the owner.
Quiet ==
  /\ lastEvent' = NoEvent
  /\ UNCHANGED <<previewRequests, lastIssued>>
  /\ UNCHANGED histVars

\* The drag-mode checkbox changes.
dragToggle ==
  /\ Idle
  /\ dragEnabled' = ~dragEnabled
  /\ IF dragEnabled
     THEN updateCore("update", [manual_x |-> Null, manual_y |-> Null])
     ELSE UNCHANGED histVars
  /\ lastEvent' = NoEvent
  /\ gesture' = Ongoing(gesture)
  /\ UNCHANGED <<snapToGrid, isDragging, handle, dragStart, listeners, pointer,
                 buttons, upQueue, clickDue, previewRequests, lastIssued>>
  /\ UNCHANGED <<batchVars, storeVars>>

\* The snap-to-grid checkbox changes.
snapToggle ==
  /\ Idle
  /\ snapToGrid' = ~snapToGrid
  /\ Quiet
  /\ gesture' = Ongoing(gesture)
  /\ UNCHANGED <<dragEnabled, isDragging, handle, dragStart, listeners, pointer,
                 buttons, upQueue, clickDue>>
  /\ UNCHANGED <<batchVars, storeVars>>

\* mousedown on the handle; o is where in the handle the first press lands.
\* A press while another button is held lands where the pointer is.
mousedownHandle(o) ==
  /\ Idle
  /\ buttons < MaxButtons
  /\ buttons = 0 \/ OverHandle(pointer)
  /\ LET p == IF buttons = 0 THEN <<handle[1] + o[1], handle[2] + o[2]>> ELSE pointer
     IN /\ pointer' = p
        /\ buttons' = buttons + 1
        /\ IF ~dragEnabled
           THEN /\ gesture' = Ongoing(gesture)
                /\ UNCHANGED <<isDragging, dragStart, listeners>>
           ELSE /\ isDragging' = TRUE
                /\ dragStart' = [x |-> p[1], y |-> p[2],
                                 left |-> OffsetLeft, top |-> OffsetTop]
                /\ listeners' = listeners + 1
                /\ gesture' = IF gesture.phase = "active"
                              THEN gesture
                              ELSE [kind |-> "drag", phase |-> "active", emits |-> 0,
                                    from |-> handle, moved |-> FALSE]
  /\ Quiet
  /\ UNCHANGED <<dragEnabled, snapToGrid, handle, upQueue, clickDue>>
  /\ UNCHANGED <<batchVars, storeVars>>

\* Mutant: every move reports the position to the owner.
mousemoveLive(p) ==
  /\ Idle
  /\ buttons > 0
  /\ pointer' = p
  /\ IF listeners > 0
     THEN /\ handle' = <<MovedTo(dragStart.left, p[1] - dragStart.x,
                                 Overlay.width, OffsetWidth),
                         MovedTo(dragStart.top, p[2] - dragStart.y,
                                 Overlay.height, OffsetHeight)>>
          /\ gesture' = [gesture EXCEPT !.moved = TRUE]
          /\ onPositionChange("mousemove", Normalized(handle'[1], Overlay.width),
                              Normalized(handle'[2], Overlay.height))
     ELSE /\ UNCHANGED <<handle, gesture>>
          /\ Quiet
  /\ UNCHANGED <<dragEnabled, snapToGrid, isDragging, dragStart, listeners,
                 buttons, upQueue, clickDue>>
  /\ UNCHANGED <<batchVars, storeVars>>
\* mousemove on document while a button is held: the registered onMouseMove
\* listeners all compute the same position from the shared start variables.
mousemove(p) ==
  /\ Idle
  /\ buttons > 0
  /\ pointer' = p
  /\ IF listeners > 0
     THEN /\ handle' = <<MovedTo(dragStart.left, p[1] - dragStart.x,
                                 Overlay.width, OffsetWidth),
                         MovedTo(dragStart.top, p[2] - dragStart.y,
                                 Overlay.height, OffsetHeight)>>
          /\ gesture' = [gesture EXCEPT !.moved = TRUE]
     ELSE UNCHANGED <<handle, gesture>>
  /\ Quiet
  /\ UNCHANGED <<dragEnabled, snapToGrid, isDragging, dragStart, listeners,
                 buttons, upQueue, clickDue>>
  /\ UNCHANGED <<batchVars, storeVars>>

\* A button is released: the browser dispatches mouseup to every onMouseUp
\* registered on document, and owes a click once no button is held.
release ==
  /\ Idle
  /\ buttons > 0
  /\ buttons' = buttons - 1
  /\ upQueue' = listeners
  /\ clickDue' = (buttons = 1)
  /\ Quiet
  /\ UNCHANGED <<dragEnabled, snapToGrid, isDragging, handle, dragStart,
                 listeners, pointer, gesture>>
  /\ UNCHANGED <<batchVars, storeVars>>

\* One registered onMouseUp runs.
onMouseUp ==
  /\ initialized = "ok"
  /\ upQueue > 0
  /\ isDragging' = FALSE
  /\ listeners' = listeners - 1
  /\ upQueue' = upQueue - 1
  /\ onPositionChange("mouseup", Normalized(OffsetLeft, RectWidth),
                      Normalized(OffsetTop, RectHeight))
  /\ gesture' = [gesture EXCEPT !.emits = Counted(@ + 1)]
  /\ UNCHANGED <<dragEnabled, snapToGrid, handle, dragStart, pointer, buttons,
                 clickDue>>
  /\ UNCHANGED <<batchVars, storeVars>>

\* Mutant: the click listener only checks that placement mode is on.
ClickIgnoredWhenOff(target) == ~dragEnabled
\* `if (!dragEnabled || isDragging) return;` and
\* `if (e.target === handle || handle.contains(e.target)) return;`
ClickIgnored(target) == ~dragEnabled \/ isDragging \/ target = "handle"

\* The overlay's click listener, for a click at p whose target is the handle
\* or the overlay itself.
overlayClick(target, p) ==
  IF ClickIgnored(target)
  THEN /\ handle' = handle
       /\ Quiet
  ELSE LET rawX == (p[1] * 100) \div RectWidth
           rawY == (p[2] * 100) \div RectHeight
           normX == Clamp(IF snapToGrid THEN Snapped(rawX, 100) ELSE rawX, 0, 100)
           normY == Clamp(IF snapToGrid THEN Snapped(rawY, 100) ELSE rawY, 0, 100)
       IN /\ handle' = <<(normX * RectWidth) \div 100, (normY * RectHeight) \div 100>>
          /\ onPositionChange("click", Num(normX), Num(normY))

\* The click the browser delivers after the release of a press on the handle:
\* its target is the element under the pointer, if that is within the overlay.
releaseClick ==
  /\ initialized = "ok"
  /\ upQueue = 0
  /\ clickDue
  /\ clickDue' = FALSE
  /\ IF TargetAt(pointer) = "outside"
     THEN /\ handle' = handle
          /\ Quiet
     ELSE overlayClick(TargetAt(pointer), pointer)
  /\ gesture' = IF gesture.phase = "active"
                THEN [gesture EXCEPT !.phase = "complete",
                                     !.emits = Counted(@ + lastEvent'.emits)]
                ELSE gesture
  /\ pointer' = <<0, 0>>
  /\ UNCHANGED <<dragEnabled, snapToGrid, isDragging, dragStart, listeners,
                 buttons, upQueue>>
  /\ UNCHANGED <<batchVars, storeVars>>

\* A click on the overlay that is no part of a drag.
click(target, p) ==
  /\ Idle
  /\ overlayClick(target, p)
  /\ gesture' = Ongoing(gesture)
  /\ UNCHANGED <<dragEnabled, snapToGrid, isDragging, dragStart, listeners,
                 pointer, buttons, upQueue, clickDue>>
  /\ UNCHANGED <<batchVars, storeVars>>

\* `await api.preview(...)` of _triggerPreview settles.
previewResponds(req, kind) ==
  /\ req \in previewRequests
  /\ previewRequests' = previewRequests \ {req}
  /\ processedImages' = IF kind = "success" THEN <<req.id>> ELSE processedImages
  /\ toast' = IF kind = "error" THEN "error" ELSE toast
  /\ lastEvent' = NoEvent
  /\ UNCHANGED <<images, backendOnline, isProcessing, run, progressLog, abandoned,
                 runsStarted>>
  /\ UNCHANGED <<dragEnabled, snapToGrid, isDragging, handle, dragStart, listeners,
                 pointer, buttons, upQueue, clickDue, gesture, lastIssued>>
  /\ UNCHANGED <<histVars, storeVars>>

DragNext ==
  \/ init
  \/ dragToggle
  \/ snapToggle
  \/ \E o \in GrabOffsets : mousedownHandle(o)
  \/ \E p \in PointerPositions : mousemove(p)
  \/ release
  \/ onMouseUp
  \/ releaseClick
  \/ \E target \in {"handle", "surface"}, p \in ClickPositions : click(target, p)

\* Placement together with the history: one image, the backend offline (no
\* preview request goes out), every write to sessionStorage succeeds, drags
\* with one button and no move.
PlaceHistInit ==
  /\ images = <<1>>
  /\ backendOnline = FALSE
  /\ isProcessing = FALSE
  /\ run = NoRun
  /\ processedImages = <<>>
  /\ progressLog = <<>>
  /\ toast = "none"
  /\ abandoned = 0
  /\ runsStarted = 0
  /\ StoreLoaded

PlaceHistNext ==
  \/ initWith("ok")
  \/ dragToggle
  \/ \E o \in GrabOffsets : buttons = 0 /\ mousedownHandle(o)
  \/ release
  \/ onMouseUp
  \/ releaseClick
  \/ \E p \in ClickPositions : click(TargetAt(p), p)
  \/ resetDefaults
  \/ commitWith("ok")
  \/ undoWith("ok")
  \/ redoWith("ok")

\* The placement surface over the results of batch runs: one or two images
\* are loaded, positions are set by clicks on the surface.
PreviewInit ==
  /\ images \in {<<1>>, <<1, 2>>}
  /\ backendOnline \in BOOLEAN
  /\ isProcessing = FALSE
  /\ run = NoRun
  /\ processedImages = <<>>
  /\ progressLog = <<>>
  /\ toast = "none"
  /\ abandoned = 0
  /\ runsStarted = 0
  /\ StoreLoaded

\* Where the clicks of this session land.
PlacePositions == {<<37, 81>>, <<62, 19>>}

PreviewNext ==
  \/ BatchNext
  \/ init
  \/ dragToggle
  \/ \E p \in PlacePositions : click(TargetAt(p), p)
  \/ \E req \in previewRequests, kind \in ResponseKinds : previewResponds(req, kind)

(***************************************************************************)
(* Specifications.                                                         *)
(***************************************************************************)
\* The configuration history in a fresh tab.
Init == HistInit /\ BatchConstructed /\ DragConstructed /\ StoreLoaded
Next == HistNext
Spec == Init /\ [][Next]_vars

\* The same with the browser's timer: a timeout that stays armed fires (the
\* callback of setTimeout runs once its delay has passed, unless the timeout
\* is cleared or the page is unloaded).
LiveSpec == Init /\ [][Next]_vars /\ WF_vars(commit)

\* The configuration history of one page, from its load to its unload.
SessionSpecInit == HistInit /\ BatchConstructed /\ DragConstructed /\ StoreLoaded
SessionSpec == SessionSpecInit /\ [][SessionNext]_vars

\* The configuration history in a tab whose sessionStorage already has items.
LoadSpecInit == LoadInit /\ BatchConstructed /\ DragConstructed /\ StoreLoaded
LoadSpec == LoadSpecInit /\ [][HistNext]_vars

\* The batch pipeline over a loaded set of images.
BatchSpecInit == HistInit /\ BatchInit /\ DragConstructed /\ StoreLoaded
BatchSpec == BatchSpecInit /\ [][BatchNext]_vars

\* The batch pipeline while the user removes images from the store.
StoreBatchSpecInit == HistInit /\ StoreBatchInit /\ DragConstructed /\ StoreLoaded
StoreBatchSpec == StoreBatchSpecInit /\ [][StoreBatchNext]_vars

\* The placement surface and its owner.  The commit timer armed by the
\* owner's settings.update does not fire within these behaviours.
DragSpecInit == HistInit /\ DragInit /\ DragConstructed /\ StoreLoaded
DragSpec == DragSpecInit /\ [][DragNext]_vars

\* Click-to-place, its preview requests and the batch pipeline.
PreviewSpecInit == HistInit /\ PreviewInit /\ DragConstructed
PreviewSpec == PreviewSpecInit /\ [][PreviewNext]_vars

\* The start-up of the desktop shell.
WaitSpecInit == HistInit /\ BatchConstructed /\ DragConstructed /\ StoreLoaded
WaitSpec == WaitSpecInit /\ [][WaitNext]_vars

\* Placement, reset and the history.
PlaceHistSpecInit == HistInit /\ PlaceHistInit /\ DragConstructed
PlaceHistSpec == PlaceHistSpecInit /\ [][PlaceHistNext]_vars

\* A processAll run while the configuration is edited.
TwoChunkSpecInit == HistInit /\ TwoChunkInit /\ DragConstructed
TwoChunkSpec == TwoChunkSpecInit /\ [][TwoChunkNext]_vars

\* The runs of the React client.
HookRunSpecInit == HistInit /\ HookRunInit /\ DragConstructed
HookRunSpec == HookRunSpecInit /\ [][HookRunNext]_vars

\* The image store on its own: calls of addFiles that may overlap, removals.
UploadSpecInit == HistInit /\ UploadInit /\ DragConstructed
UploadSpec == UploadSpecInit /\ [][UploadNext]_vars

\* The image list of the React hook.
HookSpecInit == HistInit /\ UploadInit /\ DragConstructed
HookSpec == HookSpecInit /\ [][HookNext]_vars

\* The image store with the face detection of the application script.
FaceSpecInit == HistInit /\ FaceInit /\ DragConstructed
FaceSpec == FaceSpecInit /\ [][FaceNext]_vars

(***************************************************************************)
(* Properties of the configuration history.                                *)
(***************************************************************************)
ButLast(stack) == SubSeq(stack, 1, Len(stack) - 1)
Last(stack) == stack[Len(stack)]

\* C1: when the commit timer of a burst of update calls fires, exactly one
\* entry is pushed onto undoStack and it is the configuration that was current
\* before the first update of the burst.
C1_CommitPushesSnapshotBeforeBurst ==
  [][commit =>
       /\ Len(undoStack') = Len(ButLast(undoStack')) + 1
       /\ ButLast(undoStack') =
            (IF Len(undoStack) = MAX_STACK_SIZE THEN Tail(undoStack) ELSE undoStack)
       /\ Last(undoStack') = burstBase]_vars

\* C2: undo() followed at once by redo() leaves current equal to the
\* configuration that was current before the undo().
C2_UndoThenRedoRestoresCurrent ==
  undoTrack.stage = "redone" => current = undoTrack.snapshot
C2_Witness ==
  /\ undoTrack.stage = "redone"
  /\ lastCall.op = "redo"
  /\ current = undoTrack.snapshot

\* C3: neither stack ever holds more than MAX_STACK_SIZE entries, and a push
\* onto a full stack drops the oldest entry and keeps the others in order.
C3_StacksBoundedOldestEvicted ==
  [][/\ Len(undoStack') <= MAX_STACK_SIZE
     /\ Len(redoStack') <= MAX_STACK_SIZE
     /\ (commit /\ Len(undoStack) = MAX_STACK_SIZE)
          => undoStack' = Append(Tail(undoStack), debounceTimer.prevState)
     /\ (redo /\ Len(redoStack) > 0 /\ Len(undoStack) = MAX_STACK_SIZE)
          => undoStack' = Append(Tail(undoStack), current)
     /\ (undo /\ Len(undoStack) > 0 /\ Len(redoStack) = MAX_STACK_SIZE)
          => redoStack' = Append(Tail(redoStack), current)]_vars
C3_Witness ==
  /\ lastCall.op = "commit"
  /\ lastCall.evicted
  /\ Len(undoStack) = MAX_STACK_SIZE

\* C4: a commit pushes onto undoStack and empties redoStack; the push made by
\* redo() removes from redoStack only the entry it restores, and the push made
\* by undo() removes from undoStack only the entry it restores.
C4_OnlyCommitClearsRedo ==
  [][/\ commit => (redoStack' = <<>> /\ Len(undoStack') > 0
                   /\ Last(undoStack') = debounceTimer.prevState)
     /\ (redo /\ Len(redoStack) > 0)
          => (redoStack' = ButLast(redoStack) /\ Last(undoStack') = current)
     /\ (undo /\ Len(undoStack) > 0)
          => (undoStack' = ButLast(undoStack) /\ Last(redoStack') = current)]_vars
C4_Witness ==
  /\ lastCall.op = "redo"
  /\ lastCall.notified
  /\ Len(redoStack) > 0
  /\ Len(undoStack) > 0

\* C5: undo() on an empty undoStack and redo() on an empty redoStack change
\* neither current nor the stacks nor the stored items, and do not notify.
C5_EmptyUndoRedoAreNoOps ==
  [][((undo /\ Len(undoStack) = 0) \/ (redo /\ Len(redoStack) = 0))
       => /\ UNCHANGED <<current, undoStack, redoStack, storage>>
          /\ ~lastCall'.notified]_vars
C5_Witness ==
  /\ lastCall.op = "undo"
  /\ ~lastCall.notified
  /\ ~lastCall.threw
  /\ undoStack = <<>>
  /\ redoStack # <<>>

\* C6: undo() and redo() never arm the commit timer: they leave the pending
\* timeout (and the state it captured) as it was and call no setTimeout.
C6_UndoRedoNeverArmTimer ==
  [][(undo \/ redo) => (debounceTimer' = debounceTimer /\ ~lastCall'.armed)]_vars
C6_Witness ==
  /\ lastCall.op = "undo"
  /\ lastCall.notified
  /\ ~debounceTimer.armed
  /\ current # DEFAULT_SETTINGS

Corrupt(item) == item.kind \in {"invalid", "null"}
C9_StorageFailuresAreHarmless ==
  [][/\ \A r \in ReadOutcomes :
          (initWith(r) /\ (r # "ok" \/ Corrupt(storage.undo) \/ Corrupt(storage.redo)))
            => (undoStack' = <<>> /\ redoStack' = <<>> /\ nullStacks' = {}
                /\ ~lastCall'.threw)
     /\ (commit /\ lastCall'.write = "failed")
          => (current' = current /\ redoStack' = <<>>
              /\ Last(undoStack') = debounceTimer.prevState)
     /\ (undo /\ lastCall'.write = "failed")
          => (current' = Last(undoStack) /\ undoStack' = ButLast(undoStack)
              /\ Last(redoStack') = current)
     /\ (redo /\ lastCall'.write = "failed")
          => (current' = Last(redoStack) /\ redoStack' = ButLast(redoStack)
              /\ Last(undoStack') = current)]_vars

(***************************************************************************)
(* Properties of the batch pipeline.                                       *)
(***************************************************************************)
\* The images of run r whose request succeeded, in input order, up to index n.
RECURSIVE SuccessesUpTo(_, _)
SuccessesUpTo(r, n) ==
  IF n = 0 THEN <<>>
  ELSE IF r.requests[n] = "success"
       THEN Append(SuccessesUpTo(r, n - 1), r.images[n])
       ELSE SuccessesUpTo(r, n - 1)
Successes(r) == SuccessesUpTo(r, Len(r.images))
Failed(r) == {i \in 1..Len(r.requests) : r.requests[i] \in {"failure", "error"}}

Settled(r) == \A i \in 1..Len(r.requests) : r.requests[i] \in {"success", "failure", "error"}
Fulfilled(r) == \A i \in 1..Len(r.requests) : r.requests[i] \in {"success", "failure"}
InFlight(r) == {i \in 1..Len(r.requests) : r.requests[i] = "pending"}
NonDecreasing(log) == \A k \in 1..(Len(log) - 1) : log[k] <= log[k + 1]

C12_ResultsInInputOrder ==
  run.state = "published"
    => /\ \A k \in 1..Len(processedImages) :
            \E i \in 1..Len(run.images) :
               run.images[i] = processedImages[k] /\ run.requests[i] = "success"
       /\ \A a, b \in 1..Len(processedImages) :
            a < b => \E i, j \in 1..Len(run.images) :
                       /\ i < j
                       /\ run.images[i] = processedImages[a]
                       /\ run.images[j] = processedImages[b]
C12_Witness ==
  /\ run.state = "published"
  /\ run.outOfOrder
  /\ Len(processedImages) = Len(run.images)
  /\ Len(run.images) > BATCH_SIZE

\* C13: the requests in flight all belong to the current chunk, every request
\* of an earlier chunk has settled and none of a later chunk has been issued,
\* so at most BATCH_SIZE requests of the run are in flight.
C13_OneChunkInFlight ==
  run.state \in {"awaiting", "aborted", "published"}
    => /\ Cardinality(InFlight(run)) <= BATCH_SIZE
       /\ \A i \in 1..Len(run.requests) :
            /\ i <= run.batchStart => run.requests[i] \in {"success", "failure"}
            /\ (i > run.batchStart + BATCH_SIZE /\ run.state # "published")
                 => run.requests[i] = "none"
C13_Witness ==
  /\ run.state = "awaiting"
  /\ run.batchStart = BATCH_SIZE
  /\ Cardinality(InFlight(run)) = 3

\* C14: when a run publishes, every result belongs to a record that is still
\* in the store and whose request succeeded, and no two results have the same
\* id; a record removed while the run was in flight contributes no result.
C14_ResultsOnlyForSurvivingRecords ==
  [][(run.state = "awaiting" /\ run'.state = "published")
       => /\ \A k \in 1..Len(processedImages') :
               /\ processedImages'[k] \in Range(images')
               /\ \E i \in 1..Len(run'.images) :
                    run'.images[i] = processedImages'[k] /\ run'.requests[i] = "success"
          /\ \A a, b \in 1..Len(processedImages') :
               a # b => processedImages'[a] # processedImages'[b]]_vars

(***************************************************************************)
(* Properties of the placement controller.                                 *)
(***************************************************************************)
\* C15: the handlers that run during a drag session (mousedown on the handle
\* and every mousemove) deliver no position-change event, leave the settings
\* and the commit timer alone and issue no preview request.
C15_DragMovesAreSilent ==
  [][((\E o \in GrabOffsets : mousedownHandle(o))
       \/ (\E p \in PointerPositions : mousemove(p)))
       => /\ lastEvent'.emits = 0
          /\ ~lastEvent'.requested
          /\ current' = current
          /\ debounceTimer' = debounceTimer]_vars
C15_Witness ==
  /\ isDragging
  /\ gesture.phase = "active"
  /\ gesture.moved
  /\ gesture.emits = 0
  /\ handle = <<37, 81>>
  /\ current.manual_x = Null

\* C16: a finished drag (presses on the handle, moves, releases and the click
\* that follows the last release) has emitted exactly one position-change
\* event, and an accepted click on the surface emits exactly one.
C16_OneEventPerPlacementAction ==
  [][/\ gesture'.phase = "complete" => gesture'.emits = 1
     /\ \A p \in ClickPositions :
          (click("surface", p) /\ dragEnabled /\ ~isDragging) => lastEvent'.emits = 1]_vars

\* C17: a position emitted while placement mode and snap-to-grid are on has
\* both coordinates on a multiple of one tenth.
C17_EmittedPositionIsSnapped ==
  (lastEvent.emits = 1 /\ dragEnabled /\ snapToGrid)
    => /\ lastEvent.x.t = "number" /\ lastEvent.x.n % 10 = 0
       /\ lastEvent.y.t = "number" /\ lastEvent.y.n % 10 = 0

\* C18: no position-change event is emitted while placement mode is off.
C18_NoEventWhileDisabled ==
  lastEvent.emits = 1 => dragEnabled

\* C19: a click emits a position-change event exactly when placement mode is
\* on, no drag is in progress and the target is not the handle; otherwise it
\* emits nothing and leaves the handle and the settings as they were.
C19_ClickEmitsOnlyOnSurface ==
  [][/\ \A target \in {"handle", "surface"}, p \in ClickPositions :
          click(target, p)
            => IF dragEnabled /\ ~isDragging /\ target = "surface"
               THEN lastEvent'.handler = "click" /\ lastEvent'.emits = 1
               ELSE lastEvent'.emits = 0 /\ handle' = handle /\ current' = current
     /\ releaseClick
          => IF dragEnabled /\ ~isDragging /\ TargetAt(pointer) = "surface"
             THEN lastEvent'.handler = "click" /\ lastEvent'.emits = 1
             ELSE lastEvent'.emits = 0 /\ handle' = handle /\ current' = current]_vars
C19_Witness ==
  /\ lastEvent.handler = "click"
  /\ lastEvent.emits = 1
  /\ dragEnabled
  /\ ~isDragging
  /\ handle = <<37, 81>>
  /\ current.manual_x = Num(37)
  /\ current.manual_y = Num(81)

\* C20: the mouseup of a drag that leaves the handle where it was emits one
\* position-change event, which carries the handle's clamped position and
\* becomes manual_x / manual_y.
C20_ZeroDisplacementDragEmitsOnce ==
  (lastEvent.handler = "mouseup" /\ gesture.kind = "drag" /\ handle = gesture.from)
    => /\ gesture.emits = 1
       /\ lastEvent.x = Num(Clamp(handle[1], 0, 100))
       /\ lastEvent.y = Num(Clamp(handle[2], 0, 100))
       /\ current.manual_x = lastEvent.x
       /\ current.manual_y = lastEvent.y

(***************************************************************************)
(* Properties of the commit timer.                                         *)
(***************************************************************************)
\* C29: at most one commit timer is pending at any time: an update outside
\* restoring mode made while a timer is pending replaces it, and when the
\* timer of a burst fires no other timer is left pending.
C29_AtMostOneCommitTimer ==
  [][/\ timers' <= 1
     /\ \A pct \in SliderValues :
          (update(OpacityPartial(pct)) /\ ~isRestoring /\ debounceTimer.armed)
            => (timers' = timers /\ debounceTimer'.armed)
     /\ commit => timers' = 0]_vars
C29_Witness ==
  /\ timers = 1
  /\ debounceTimer.armed
  /\ lastCall.op = "update"
  /\ debounceTimer.prevState # burstBase

(***************************************************************************)
(* Range of the emitted positions.                                         *)
(***************************************************************************)
UnitInterval(v) == v.t = "number" /\ 0 <= v.n /\ v.n <= 100
\* C30: every emitted position has both coordinates within [0, 1] (0..100
\* hundredths), so manual_x and manual_y are null or within [0, 1].
C30_EmittedPositionWithinUnitSquare ==
  /\ lastEvent.emits = 1 => (UnitInterval(lastEvent.x) /\ UnitInterval(lastEvent.y))
  /\ current.manual_x = Null \/ UnitInterval(current.manual_x)
  /\ current.manual_y = Null \/ UnitInterval(current.manual_y)

(***************************************************************************)
(* Properties of the image store.                                          *)
(***************************************************************************)
\* No object URL has been revoked yet: nothing was removed or cleared.
NothingRemoved == \A i \in 1..Len(previewURLs) : previewURLs[i] = 0
\* The call finished on its own: no other call was suspended beside it.
FinishedAlone(c) == c.stage = "done" /\ ~c.overlapped
\* C21: a finished call with 101 valid files into an empty store has stored
\* exactly its first 100 files, in order, and has reported the cap once; any
\* finished call that reported the cap reported it once, left the store at
\* 100 records and examined no file after the one that hit the cap.
C21_CapStoresFirstHundredOnce ==
  \A k \in 1..Len(calls) :
    LET c == calls[k]
    IN (FinishedAlone(c) /\ NothingRemoved)
         => /\ (c.files = OverCap /\ c.startedAt = 0)
                 => /\ Len(images) = MAX_FILES
                    /\ \A i \in 1..MAX_FILES :
                         c.outcomes[i].o = "stored" /\ images[i] = c.outcomes[i].id
                    /\ c.capNotices = 1
            /\ c.capNotices > 0
                 => /\ c.capNotices = 1
                    /\ Len(images) = MAX_FILES
                    /\ \A i, j \in 1..Len(c.files) :
                         (c.outcomes[i].o = "cap" /\ i < j) => c.outcomes[j] = Pending

\* C22: the store never holds more than 100 records.
C22_StoreNeverExceedsCap ==
  Len(images) <= MAX_FILES

\* The extension of a name is what follows its last dot; a name without a dot
\* has none.
HasListedExtension(file) ==
  Len(file.name) > 1 /\ toLowerCase(file.name[Len(file.name)]) \in VALID_EXTENSIONS
\* C23: a file whose extension is not listed is never stored and gets one
\* error; a listed file that cannot be read gets one error; neither stops the
\* call: a finished call has left a file unexamined only after a cap notice.
C23_InvalidFilesAreSkippedNotFatal ==
  \A k \in 1..Len(calls) :
    LET c == calls[k]
    IN \A i \in 1..Len(c.files) :
         /\ (c.outcomes[i] # Pending /\ ~HasListedExtension(c.files[i]))
              => c.outcomes[i].o = "unsupported"
         /\ (c.outcomes[i] # Pending /\ HasListedExtension(c.files[i])
               /\ ~c.files[i].readable)
              => c.outcomes[i].o \in {"unreadable", "cap"}
         /\ (c.stage = "done" /\ c.outcomes[i] = Pending)
              => c.capNotices > 0

\* C24: an id that is not in the store has no face cache entry.
C24_RemovedIdsHaveNoCachedFaces ==
  \A id \in 1..nextId : id \notin Range(images) => id \notin faceCache

\* The records a call has built and not yet handed to the store.
Unsubmitted ==
  {id \in 1..nextId :
     \E k \in 1..Len(calls) :
       /\ calls[k].stage # "done"
       /\ \E i \in 1..Len(calls[k].files) : calls[k].outcomes[i] = Outcome("decoded", id)}
\* C25: no object URL is revoked twice, none is revoked while its record is
\* in the store, and none is left unrevoked when its record is not in the
\* store (and is not about to be handed to it).
C25_PreviewURLsRevokedExactlyOnce ==
  LET stored == Range(images)
  IN \A id \in 1..Len(previewURLs) :
       /\ previewURLs[id] <= 1
       /\ id \in stored => previewURLs[id] = 0
       /\ id \notin stored => (previewURLs[id] = 1 \/ id \in Unsubmitted)

\* C26: no image has been the subject of more than one detection request.
C26_DetectionAtMostOncePerImage ==
  \A id \in 1..Len(detectLog) : detectLog[id] <= 1

\* The list seq with its k-th element left out.
Omit(seq, k) == [i \in 1..(Len(seq) - 1) |-> IF i < k THEN seq[i] ELSE seq[i + 1]]
\* C28: the record list changes only by a new id appended at its end, by one
\* record leaving with the others keeping their order, or by being emptied;
\* removing an id that no record has changes neither the list nor an object
\* URL nor the face cache.
C28_RecordsInInsertionOrder ==
  [][/\ \/ images' = images
        \/ \E id \in (nextId + 1)..nextId' : images' = Append(images, id)
        \/ \E k \in 1..Len(images) : images' = Omit(images, k)
        \/ images' = <<>>
     /\ \A id \in RemoveIds :
          removeImage(id)
            => IF id \in Range(images)
               THEN /\ id \notin Range(images')
                    /\ \E k \in 1..Len(images) : images[k] = id /\ images' = Omit(images, k)
               ELSE /\ images' = images
                    /\ previewURLs' = previewURLs
                    /\ faceCache' = faceCache]_vars
C28_Witness ==
  /\ Len(images) >= 2
  /\ images[1] # 1
  /\ \E k \in 1..Len(calls) : \E i \in 1..Len(calls[k].files) :
       calls[k].outcomes[i] = Outcome("stored", images[Len(images)])
  /\ \E i \in 1..Len(previewURLs) : previewURLs[i] = 1

(***************************************************************************)
(* Properties of the owner's position-change callback.                     *)
(***************************************************************************)
\* C27: a click that emits a position has applied it to manual_x / manual_y
\* and has issued one preview request for the first image that carries the
\* new position; it starts no batch run; and the response to a preview
\* request leaves the results of the other images in the result list.
C27_PositionChangeRequestsOnePreview ==
  [][/\ \A p \in PlacePositions :
          (click(TargetAt(p), p) /\ lastEvent'.emits = 1)
            => /\ current'.manual_x = lastEvent'.x
               /\ current'.manual_y = lastEvent'.y
               /\ lastEvent'.requested
               /\ [id |-> images[1], manual_x |-> lastEvent'.x,
                   manual_y |-> lastEvent'.y] \in previewRequests'
               /\ isProcessing' = isProcessing
               /\ run' = run
     /\ \A req \in previewRequests, kind \in ResponseKinds :
          previewResponds(req, kind)
            => \A id \in Range(processedImages) :
                 id # req.id => id \in Range(processedImages')]_vars

(***************************************************************************)
(* Properties of the history across timers, runs and placement.            *)
(***************************************************************************)
\* C31: after an undo() and before any other call, redoStack is emptied only
\* by redo(), also when a commit timer armed before the undo() fires (a
\* reload of the page, which rebuilds the module, is left aside).
C31_RedoSurvivesUntilNextUpdate ==
  [][(/\ undoTrack.stage = "undone"
      /\ ~IsEmpty(redoStack)
      /\ IsEmpty(redoStack')
      /\ initialized' # "no")
       => \E w \in WriteOutcomes : redoWith(w)]_vars

\* C32: a pending commit timer leads to a state where the timer has fired,
\* the callback has pushed an entry on undoStack, and the entry on top (what a
\* subsequent undo() restores) is the configuration from before the burst of
\* updates; a reload of the page ends the obligation.
C32_EveryChangeIsEventuallyRecorded ==
  debounceTimer.armed
    ~> \/ initialized = "no"
       \/ /\ ~debounceTimer.armed
          /\ lastCall.op = "commit"
          /\ ~lastCall.threw
          /\ Top(undoStack) = burstBase

\* C33: when the response that settles the last request in flight is
\* displayed, it is the response to the request issued most recently: a
\* preview response displayed while nothing else is in flight belongs to the
\* last request issued, and a batch run that publishes its results while no
\* preview request is in flight was issued after every preview request.
C33_StaleResponsesNeverWin ==
  [][/\ \A req \in previewRequests :
          (/\ previewResponds(req, "success")
           /\ previewRequests' = {}
           /\ run.state # "awaiting")
            => lastIssued = Issue("preview", req.id, req)
     /\ (/\ run.state = "awaiting"
         /\ run'.state = "published"
         /\ previewRequests = {})
            => lastIssued.kind = "batch"]_vars

\* C34: the originalPreview of every displayed result is an object URL that
\* has not been revoked (object URLs are revoked by removeImage and clearAll
\* only, for the records they take out of the store).
C34_NoDisplayedPreviewIsRevoked ==
  \A i \in 1..Len(processedImages) : previewURLs[processedImages[i]] = 0

\* C35: the ids that have an entry in the face cache are ids of records in
\* the store.
C35_FaceCacheKeysAreStoredIds ==
  faceCache \subseteq Range(images)

\* C36: a run starts only while no run is active, the store holds an image
\* and the backend was last polled online; and whenever no run is active,
\* isProcessing is false.
C36_RunsExclusiveAndBusyReleased ==
  [][/\ activeRuns' > activeRuns
          => activeRuns = 0 /\ Len(images) > 0 /\ backendOnline
     /\ activeRuns' = 0 => ~isProcessing']_vars

\* C37: every request that a run has issued was sent with the run's
\* snapshot, the configuration that was current when the run started,
\* whatever update, undo, redo or reset happened while it was in flight.
C37_RequestsCarryTheRunSnapshot ==
  /\ \A i \in 1..Len(run.sent) :
       run.requests[i] # "none" => run.sent[i] = run.currentSettings
  /\ (run.state = "awaiting" /\ Len(run.chunks) = 1 /\ lastCall.op = "init")
       => run.currentSettings = current
C37_Witness ==
  /\ run.state = "awaiting"
  /\ Len(run.chunks) = 2
  /\ run.requests[BATCH_SIZE + 1] = "pending"
  /\ run.sent[BATCH_SIZE + 1] = run.currentSettings
  /\ current # run.currentSettings
  /\ ~IsEmpty(redoStack)

\* C38: manual_x is null exactly when manual_y is null, in current and in
\* every snapshot held in undoStack or redoStack.
BothOrNeither(settings) == (settings.manual_x = Null) <=> (settings.manual_y = Null)
C38_ManualPositionNullTogether ==
  /\ BothOrNeither(current)
  /\ \A i \in 1..Len(undoStack) : BothOrNeither(undoStack[i])
  /\ \A i \in 1..Len(redoStack) : BothOrNeither(redoStack[i])

C38_Witness ==
  /\ dragEnabled = FALSE
  /\ current.manual_x = Null /\ current.manual_y = Null
  /\ Len(undoStack) = 2
  /\ undoStack[1].manual_x = Null /\ undoStack[1].manual_y = Null
  /\ undoStack[2].manual_x.t = "number" /\ undoStack[2].manual_y.t = "number"
  /\ lastCall.op = "commit"

(***************************************************************************)
(* Properties of the desktop shell's start-up.                             *)
(***************************************************************************)
\* C39: waitForBackend sends at most maxAttempts probes, and never has more
\* than one probe or retry timeout outstanding.
C39_WaitForBackendIsBoundedAndSerial ==
  /\ attempts <= maxAttempts
  /\ probes + retryTimers <= 1

(***************************************************************************)
(* The capacity shared by the two stacks.                                  *)
(***************************************************************************)
\* C40: from empty stacks, undoStack and redoStack together never hold more
\* than MAX_STACK_SIZE entries, and no undo() or redo() evicts an entry.
C40_StacksShareTheCapacity ==
  /\ Len(undoStack) + Len(redoStack) <= MAX_STACK_SIZE
  /\ lastCall.op \in {"undo", "redo"} => ~lastCall.evicted

C40_Witness ==
  /\ lastCall.op = "undo"
  /\ ~lastCall.threw
  /\ Len(redoStack) = MAX_STACK_SIZE
  /\ IsEmpty(undoStack)

====
